---- MODULE Spec2Model ----
(***************************************************************************)
(* Model of the lottery import pipeline: the validator and cleaner         *)
(* (utils/validation.ts), the batch importer (lib/dataImport.ts) and the   *)
(* persistent store it writes to (the lottery_games / lottery_results      *)
(* tables with their unique indexes).                                      *)
(*                                                                         *)
(* Encodings.  A drawn number x is held as x * NumScale, so that a         *)
(* non-integer element is representable.  A jackpot is held in thousandths *)
(* inside a sequence of length <= 1 (the empty sequence is undefined /     *)
(* null).  A draw date is a record: txt is the text of a date string (""   *)
(* for a Date object), ts the time in hours since 1970-01-01T00:00Z, nan   *)
(* marks an Invalid Date.                                                  *)
(***************************************************************************)
EXTENDS Integers, Sequences, FiniteSets, TLC

VARIABLES
    games,      \* names of the rows of lottery_games (the id of a game is its name)
    rows,       \* rows of lottery_results, in insertion order
    storeDown,  \* TRUE once the store is unreachable: every operation throws
    call,       \* per invocation of importLotteryResults: its locals and position
    ops,        \* per invocation: the store operations it issued, in order
    app,        \* the application of a pure function: its name, argument and value
    hist        \* the locals and position of importAllHistoricalData

vars == <<games, rows, storeDown, call, ops, app, hist>>

\* ------------------------------------------------------------------ bounds

MaxLen == 2
MaxBatch == 2
MaxConcLen == 1
NumScale == 2

Calls == {1, 2}

\* ------------------------------------------------------------------ helpers

RECURSIVE SeqSum(_)
SeqSum(s) == IF s = <<>> THEN 0 ELSE Head(s) + SeqSum(Tail(s))

Range(s) == {s[k] : k \in 1..Len(s)}

Min2(a, b) == IF a < b THEN a ELSE b
Max2(a, b) == IF a > b THEN a ELSE b

\* Array.prototype.slice(start, end) on a sequence (indices are 0-based in the code)
Slice(s, start, end) ==
    LET n  == Len(s)
        lo == IF start < 0 THEN Max2(n + start, 0) ELSE Min2(start, n)
        hi == IF end < 0 THEN Max2(n + end, 0) ELSE Min2(end, n)
    IN  IF lo >= hi THEN <<>> ELSE SubSeq(s, lo + 1, hi)

\* [...a].sort((a, b) => a - b): insertion of each element into a sorted prefix
RECURSIVE InsertSorted(_, _)
InsertSorted(x, s) ==
    IF s = <<>> THEN <<x>>
    ELSE IF x < Head(s) THEN <<x>> \o s
    ELSE <<Head(s)>> \o InsertSorted(x, Tail(s))

RECURSIVE SortAsc(_)
SortAsc(s) == IF s = <<>> THEN <<>> ELSE InsertSorted(Head(s), SortAsc(Tail(s)))

\* one message of an errors / warnings list
Msg(kind, s, a, b) == [kind |-> kind, s |-> s, a |-> a, b |-> b]

\* ------------------------------------------------------------------ dates

\* new Date('1995-01-01'), in hours since the epoch
Date1995 == 219144

\* the clock read by new Date() in the validator
Now == 487992 + 96

DateString(txt) == [txt |-> txt, ts |-> 0, nan |-> FALSE]
DateObject(ts) == [txt |-> "", ts |-> ts, nan |-> FALSE]
InvalidDate == [txt |-> "", ts |-> 0, nan |-> TRUE]

\* Date.parse of the date strings the inputs use
ParseDate(txt) ==
    CASE txt = "2025-09-02" -> DateObject(487992)
      [] txt = "2025-09-02T12:00:00Z" -> DateObject(487992 + 12)
      [] txt = "2025-09-04" -> DateObject(487992 + 48)
      [] txt = "2025-09-30" -> DateObject(487992 + 672)
      [] txt = "1990-01-01" -> DateObject(175320)
      [] OTHER -> InvalidDate

\* new Date(value): parses a string, copies a Date
NewDate(d) == IF d.txt # "" THEN ParseDate(d.txt) ELSE d

\* ------------------------------------------------------------------ catalog

GameNames == {"6/42", "6/45", "6/49", "6/55", "6/58"}

LOTTERY_GAMES ==
    [g \in GameNames |->
        CASE g = "6/42" -> [maxNumber |-> 42, numberCount |-> 6]
          [] g = "6/45" -> [maxNumber |-> 45, numberCount |-> 6]
          [] g = "6/49" -> [maxNumber |-> 49, numberCount |-> 6]
          [] g = "6/55" -> [maxNumber |-> 55, numberCount |-> 6]
          [] g = "6/58" -> [maxNumber |-> 58, numberCount |-> 6]]

\* String.prototype.trim on the game names the inputs use
Trim(s) ==
    CASE s = " 6/42 " -> "6/42"
      [] s = "6/42 " -> "6/42"
      [] OTHER -> s

\* ------------------------------------------------------------------ records

\* a number literal n as an element of a numbers array
N(n) == n * NumScale

Nums(s) == [k \in 1..Len(s) |-> N(s[k])]

IsInteger(x) == x % NumScale = 0

\* a jackpot literal (whole units) and the absent jackpot
Jackpot(units) == <<units * 1000>>
NoJackpot == <<>>

Candidate(gameName, drawDate, numbers, jackpot) ==
    [isNull |-> FALSE, gameName |-> gameName, drawDate |-> drawDate,
     numbers |-> numbers, jackpot |-> jackpot]

\* a null element of the posted array (the route casts the request body unchecked)
NullCandidate ==
    [isNull |-> TRUE, gameName |-> "", drawDate |-> DateString(""),
     numbers |-> <<>>, jackpot |-> <<>>]

\* ------------------------------------------------------------------ validator

\* a check of the elements that stops at the first offending one
NumberErrorsFirstOnly(numbers, cfg) ==
    LET bad == {k \in 1..Len(numbers) :
                   ~IsInteger(numbers[k]) \/ numbers[k] < N(1) \/ numbers[k] > N(cfg.maxNumber)}
        first == CHOOSE k \in bad : \A k2 \in bad : k <= k2
    IN  IF bad = {} THEN <<>>
        ELSE IF ~IsInteger(numbers[first])
            THEN <<Msg("NotAnInteger", "", first - 1, numbers[first])>>
        ELSE <<Msg("OutOfRange", "", first - 1, numbers[first])>>

\* lines 63-69: data.numbers.forEach, one error for each offending element
NumberErrors(numbers, cfg) ==
    LET RECURSIVE Walk(_)
        Walk(k) ==
            IF k > Len(numbers) THEN <<>>
            ELSE (IF ~IsInteger(numbers[k])
                      THEN <<Msg("NotAnInteger", "", k - 1, numbers[k])>>
                  ELSE IF numbers[k] < N(1) \/ numbers[k] > N(cfg.maxNumber)
                      THEN <<Msg("OutOfRange", "", k - 1, numbers[k])>>
                  ELSE <<>>) \o Walk(k + 1)
    IN  Walk(1)

\* a validator that lets only a record without warnings through
IsValidWithoutWarnings(errors, warnings) == Len(errors) = 0 /\ Len(warnings) = 0

\* isValid: errors.length === 0
IsValid(errors, warnings) == Len(errors) = 0

validateLotteryResult(data) ==
    LET nameErrors ==
            IF data.gameName = "" THEN <<Msg("GameNameRequired", "", 0, 0)>>
            ELSE IF data.gameName \notin GameNames
                THEN <<Msg("InvalidGameName", data.gameName, 0, 0)>>
            ELSE <<>>
        drawDate == NewDate(data.drawDate)
        dateErrors ==
            IF drawDate.nan THEN <<Msg("InvalidDrawDate", "", 0, 0)>> ELSE <<>>
        dateWarnings ==
            IF drawDate.nan THEN <<>>
            ELSE (IF drawDate.ts > Now
                      THEN <<Msg("FutureDate", "", 0, 0)>> ELSE <<>>)
              \o (IF drawDate.ts < Date1995
                      THEN <<Msg("Pre1995", "", 0, 0)>> ELSE <<>>)
        known == data.gameName \in GameNames
        cfg == LOTTERY_GAMES[data.gameName]
        numberErrors ==
            IF ~known THEN <<>>
            ELSE (IF Len(data.numbers) # cfg.numberCount
                      THEN <<Msg("ExpectedCount", "", cfg.numberCount, Len(data.numbers))>>
                      ELSE <<>>)
              \o NumberErrors(data.numbers, cfg)
              \o (IF Cardinality(Range(data.numbers)) # Len(data.numbers)
                      THEN <<Msg("DuplicateNumbers", "", 0, 0)>> ELSE <<>>)
        numberWarnings ==
            IF known /\ data.numbers # SortAsc(data.numbers)
                THEN <<Msg("NotAscending", "", 0, 0)>> ELSE <<>>
        jackpotErrors ==
            IF data.jackpot # <<>> /\ data.jackpot[1] < 0
                THEN <<Msg("JackpotNegative", "", 0, 0)>> ELSE <<>>
        errors == nameErrors \o dateErrors \o numberErrors \o jackpotErrors
        warnings == dateWarnings \o numberWarnings
    IN  [isValid |-> IsValid(errors, warnings),
         errors |-> errors,
         warnings |-> warnings]

\* Math.round(x * 100) / 100 on a value held in thousandths
Round2(x) == ((x + 5) \div 10) * 10

\* a cleaner that leaves the numbers as they came
cleanLotteryResultUnsorted(data) ==
    [isNull |-> FALSE,
     gameName |-> Trim(data.gameName),
     drawDate |-> NewDate(data.drawDate),
     numbers |-> data.numbers,
     jackpot |-> IF data.jackpot # <<>> /\ data.jackpot[1] # 0
                     THEN <<Round2(data.jackpot[1])>> ELSE <<>>]

cleanLotteryResult(data) ==
    [isNull |-> FALSE,
     gameName |-> Trim(data.gameName),
     drawDate |-> NewDate(data.drawDate),
     numbers |-> SortAsc(data.numbers),
     jackpot |-> IF data.jackpot # <<>> /\ data.jackpot[1] # 0
                     THEN <<Round2(data.jackpot[1])>> ELSE <<>>]

\* validateLotteryResults throws (a TypeError on data.gameName) on a null element
ValidationThrows(results) == \E k \in 1..Len(results) : results[k].isNull

validateLotteryResults(results) ==
    LET RECURSIVE Valid(_)
        Valid(k) ==
            IF k > Len(results) THEN <<>>
            ELSE (IF validateLotteryResult(results[k]).isValid
                      THEN <<cleanLotteryResult(results[k])>> ELSE <<>>)
                 \o Valid(k + 1)
        RECURSIVE Invalid(_)
        Invalid(k) ==
            IF k > Len(results) THEN <<>>
            ELSE (IF validateLotteryResult(results[k]).isValid
                      THEN <<>> ELSE <<results[k]>>)
                 \o Invalid(k + 1)
    IN  [validResults |-> Valid(1), invalidResults |-> Invalid(1)]

\* ------------------------------------------------------------------ store

\* the table without its unique index
UniqueViolationNoIndex(rs, gameId, ts) == FALSE

\* CREATE UNIQUE INDEX lottery_results_gameId_drawDate_key ON (gameId, drawDate):
\* an insert of a key that has a row is rejected
UniqueViolation(rs, gameId, ts) ==
    \E k \in 1..Len(rs) : rs[k].gameId = gameId /\ rs[k].drawDate = ts

\* a lookup that never finds the row
ExistingRowNever(rs, gameId, ts) == FALSE

\* prisma.lotteryResult.findUnique({ where: { gameId_drawDate } }): is there a row
ExistingRow(rs, gameId, ts) ==
    \E k \in 1..Len(rs) : rs[k].gameId = gameId /\ rs[k].drawDate = ts

\* prisma.lotteryGame.findUnique({ where: { name } }): is there a row
GameExists(name) == name \in games

\* the data of prisma.lotteryResult.create
NewRow(result) ==
    [gameId |-> result.gameName,
     drawDate |-> NewDate(result.drawDate).ts,
     numbers |-> result.numbers,
     jackpot |-> IF result.jackpot # <<>> /\ result.jackpot[1] # 0
                     THEN result.jackpot ELSE <<>>]

\* a write keyed on the game alone: the new row takes the place of the rows of
\* its game
InsertedForGame(rs, result) ==
    LET OtherGame(r) == r.gameId # result.gameName
    IN  Append(SelectSeq(rs, OtherGame), NewRow(result))

\* the table after prisma.lotteryResult.create returned: one row more
Inserted(rs, result) == Append(rs, NewRow(result))

\* ------------------------------------------------------------------ importer

DEFAULT_OPTIONS == [skipDuplicates |-> TRUE, validateData |-> TRUE, batchSize |-> 100]

NoResult ==
    [success |-> FALSE, imported |-> 0, skipped |-> 0, errors |-> <<>>,
     details |-> [total |-> 0, valid |-> 0, invalid |-> 0, duplicates |-> 0]]

\* the locals of importLotteryResults (and of the processBatch it is running)
NewCall(results, opts) ==
    [pc |-> "start", results |-> results, opts |-> opts,
     validResults |-> <<>>, errors |-> <<>>, imported |-> 0, skipped |-> 0, i |-> 0,
     batch |-> <<>>, j |-> 0, bImported |-> 0, bSkipped |-> 0, bErrors |-> <<>>,
     aborted |-> FALSE, ret |-> NoResult]

IdleCall == [NewCall(<<>>, DEFAULT_OPTIONS) EXCEPT !.pc = "idle"]

\* success without looking at errors
SuccessAlways(errors) == TRUE

\* success: errors.length === 0
Success(errors) == Len(errors) = 0

\* a return that reports every valid record as imported
NormalReturnAllValid(s) ==
    [s EXCEPT !.pc = "done",
              !.ret = [success |-> Success(s.errors),
                       imported |-> Len(s.validResults),
                       skipped |-> s.skipped,
                       errors |-> s.errors,
                       details |-> [total |-> Len(s.results),
                                    valid |-> Len(s.validResults),
                                    invalid |-> Len(s.results) - Len(s.validResults),
                                    duplicates |-> s.skipped]]]

\* the return of the try block
NormalReturn(s) ==
    [s EXCEPT !.pc = "done",
              !.ret = [success |-> Success(s.errors),
                       imported |-> s.imported,
                       skipped |-> s.skipped,
                       errors |-> s.errors,
                       details |-> [total |-> Len(s.results),
                                    valid |-> Len(s.validResults),
                                    invalid |-> Len(s.results) - Len(s.validResults),
                                    duplicates |-> s.skipped]]]

\* the return of the catch block of importLotteryResults
AbortReturn(s) ==
    [s EXCEPT !.pc = "done",
              !.aborted = TRUE,
              !.ret = [success |-> FALSE,
                       imported |-> s.imported,
                       skipped |-> s.skipped,
                       errors |-> <<Msg("ImportFailed", "", 0, 0)>> \o s.errors,
                       details |-> [total |-> Len(s.results),
                                    valid |-> 0,
                                    invalid |-> Len(s.results),
                                    duplicates |-> 0]]]

\* the record processBatch is working on, and its position in validResults
Current(s) == s.batch[s.j]
Position(s) == s.i + s.j

\* a catch block that rethrows: the failure of one record ends the import
CatchRecordErrorRethrow(s) == AbortReturn(s)

\* the catch block of processBatch: one error for the record, on to the next
CatchRecordError(s) ==
    [s EXCEPT !.bErrors = Append(@, Msg("FailedToImport", Current(s).gameName,
                                        NewDate(Current(s).drawDate).ts, 0)),
              !.pc = "record"]

\* a missing game counted as a skipped record
OnGameMissingSkipped(s) ==
    [s EXCEPT !.bErrors = Append(@, Msg("GameNotFound", Current(s).gameName, 0, 0)),
              !.bSkipped = @ + 1,
              !.pc = "record"]

\* a missing game without the continue: the record goes on to create
OnGameMissingFallsThrough(s) ==
    [s EXCEPT !.bErrors = Append(@, Msg("GameNotFound", Current(s).gameName, 0, 0)),
              !.pc = "create"]

\* if (!game) { errors.push(...); continue }
OnGameMissing(s) ==
    [s EXCEPT !.bErrors = Append(@, Msg("GameNotFound", Current(s).gameName, 0, 0)),
              !.pc = "record"]

\* an existing row without the continue: the record goes on to create
OnExistingFallsThrough(s) == [s EXCEPT !.bSkipped = @ + 1, !.pc = "create"]

\* if (existing) { skipped++; continue }
OnExisting(s) == [s EXCEPT !.bSkipped = @ + 1, !.pc = "record"]

\* a create that returned, left uncounted
OnCreatedUncounted(s) == [s EXCEPT !.pc = "record"]

\* imported++ after a create that returned
OnCreated(s) == [s EXCEPT !.bImported = @ + 1, !.pc = "record"]

\* the duplicate lookup done whatever skipDuplicates says
AfterGameFoundAlwaysLooksUp(s) == [s EXCEPT !.pc = "findExisting"]

\* after the game was found: the duplicate lookup, or straight to create
AfterGameFound(s) ==
    [s EXCEPT !.pc = IF s.opts.skipDuplicates THEN "findExisting" ELSE "create"]

\* a validation stage that pushes one error for each invalid record
ValidatedErrorPerRecord(s) ==
    LET v == validateLotteryResults(s.results)
    IN  IF s.opts.validateData
            THEN [s EXCEPT !.validResults = v.validResults,
                           !.errors = [k \in 1..Len(v.invalidResults) |->
                                          Msg("InvalidResults", "", 1, 0)],
                           !.pc = "chunk"]
            ELSE [s EXCEPT !.validResults = s.results, !.pc = "chunk"]

\* a validation stage that runs whatever validateData says
ValidatedWhateverOption(s) ==
    LET v == validateLotteryResults(s.results)
    IN  [s EXCEPT !.validResults = v.validResults,
                  !.errors = IF Len(v.invalidResults) > 0
                                 THEN <<Msg("InvalidResults", "",
                                            Len(v.invalidResults), 0)>>
                                 ELSE <<>>,
                  !.pc = "chunk"]

\* the validation stage of importLotteryResults
Validated(s) ==
    LET v == validateLotteryResults(s.results)
    IN  IF s.opts.validateData
            THEN [s EXCEPT !.validResults = v.validResults,
                           !.errors = IF Len(v.invalidResults) > 0
                                          THEN <<Msg("InvalidResults", "",
                                                     Len(v.invalidResults), 0)>>
                                          ELSE <<>>,
                           !.pc = "chunk"]
            ELSE [s EXCEPT !.validResults = s.results, !.pc = "chunk"]

\* an accumulation that puts the errors of a batch in front of the earlier ones
AfterBatchErrorsFirst(s) ==
    [s EXCEPT !.imported = @ + s.bImported,
              !.skipped = @ + s.bSkipped,
              !.errors = s.bErrors \o @,
              !.i = @ + s.opts.batchSize,
              !.pc = "chunk"]

\* the accumulation of a finished processBatch and the loop increment
AfterBatch(s) ==
    [s EXCEPT !.imported = @ + s.bImported,
              !.skipped = @ + s.bSkipped,
              !.errors = @ \o s.bErrors,
              !.i = @ + s.opts.batchSize,
              !.pc = "chunk"]

Log(c, op, out) ==
    ops' = [ops EXCEPT ![c] = Append(@, [op |-> op, pos |-> Position(call[c]), out |-> out])]

\* how a store operation that throws is logged: the store is unreachable, or the
\* operation failed on its own
Thrown == IF storeDown THEN "down" ELSE "throw"

\* lines 45-63: options, validation
Begin(c) ==
    /\ call[c].pc = "start"
    /\ call' = [call EXCEPT ![c] =
           IF call[c].opts.validateData /\ ValidationThrows(call[c].results)
               THEN AbortReturn(call[c])
               ELSE Validated(call[c])]
    /\ UNCHANGED <<games, rows, storeDown, ops, app, hist>>

\* line 66-68: the chunk loop test, the slice, the call of processBatch; or the return
ChunkLoop(c) ==
    /\ call[c].pc = "chunk"
    /\ LET s == call[c]
       IN  call' = [call EXCEPT ![c] =
               IF s.i < Len(s.validResults)
                   THEN [s EXCEPT !.batch = Slice(s.validResults, s.i, s.i + s.opts.batchSize),
                                  !.j = 0, !.bImported = 0, !.bSkipped = 0,
                                  !.bErrors = <<>>, !.pc = "record"]
                   ELSE NormalReturn(s)]
    /\ UNCHANGED <<games, rows, storeDown, ops, app, hist>>

\* line 121: the next record of the batch; or the return of processBatch.  A null
\* record throws inside the try and again inside the catch, which rejects
\* processBatch and lands in the catch block of importLotteryResults.
NextRecord(c) ==
    /\ call[c].pc = "record"
    /\ LET s == call[c]
       IN  call' = [call EXCEPT ![c] =
               IF s.j >= Len(s.batch) THEN AfterBatch(s)
               ELSE IF s.batch[s.j + 1].isNull THEN AbortReturn(s)
               ELSE [s EXCEPT !.j = @ + 1, !.pc = "findGame"]]
    /\ UNCHANGED <<games, rows, storeDown, ops, app, hist>>

\* lines 124-131: prisma.lotteryGame.findUnique
FindGame(c, faults) ==
    /\ call[c].pc = "findGame"
    /\ \E fault \in faults :
        LET s == call[c]
        IN  IF fault \/ storeDown
                THEN /\ call' = [call EXCEPT ![c] = CatchRecordError(s)]
                     /\ Log(c, "findGame", Thrown)
            ELSE IF ~GameExists(Current(s).gameName)
                THEN /\ call' = [call EXCEPT ![c] = OnGameMissing(s)]
                     /\ Log(c, "findGame", "null")
            ELSE /\ call' = [call EXCEPT ![c] = AfterGameFound(s)]
                 /\ Log(c, "findGame", "row")
    /\ UNCHANGED <<games, rows, storeDown, app, hist>>

\* lines 136-150: prisma.lotteryResult.findUnique on (gameId, drawDate)
FindExisting(c, faults) ==
    /\ call[c].pc = "findExisting"
    /\ \E fault \in faults :
        LET s == call[c]
            d == NewDate(Current(s).drawDate)
        IN  IF fault \/ storeDown \/ d.nan
                THEN /\ call' = [call EXCEPT ![c] = CatchRecordError(s)]
                     /\ Log(c, "findExisting", Thrown)
            ELSE IF ExistingRow(rows, Current(s).gameName, d.ts)
                THEN /\ call' = [call EXCEPT ![c] = OnExisting(s)]
                     /\ Log(c, "findExisting", "row")
            ELSE /\ call' = [call EXCEPT ![c] = [s EXCEPT !.pc = "create"]]
                 /\ Log(c, "findExisting", "null")
    /\ UNCHANGED <<games, rows, storeDown, app, hist>>

\* lines 153-162: prisma.lotteryResult.create
Create(c, faults) ==
    /\ call[c].pc = "create"
    /\ \E fault \in faults :
        LET s == call[c]
            d == NewDate(Current(s).drawDate)
        IN  IF fault \/ storeDown \/ d.nan
                THEN /\ call' = [call EXCEPT ![c] = CatchRecordError(s)]
                     /\ Log(c, "create", Thrown)
                     /\ UNCHANGED rows
            ELSE IF UniqueViolation(rows, Current(s).gameName, d.ts)
                THEN /\ call' = [call EXCEPT ![c] = CatchRecordError(s)]
                     /\ Log(c, "create", "unique")
                     /\ UNCHANGED rows
            ELSE /\ rows' = Inserted(rows, Current(s))
                 /\ call' = [call EXCEPT ![c] = OnCreated(s)]
                 /\ Log(c, "create", "ok")
    /\ UNCHANGED <<games, storeDown, app, hist>>

\* the store becomes unreachable while an import is running
StoreUnreachable ==
    /\ ~storeDown
    /\ \E c \in Calls : call[c].pc \notin {"idle", "done"}
    /\ storeDown' = TRUE
    /\ UNCHANGED <<games, rows, call, ops, app, hist>>

\* ------------------------------------------------------------------ inputs

D0 == DateString("2025-09-02")
D1 == DateString("2025-09-04")

RecA == Candidate("6/42", D0, Nums(<<1, 2, 3, 4, 5, 6>>), Jackpot(6000))
RecB == Candidate("6/42", D0, Nums(<<12, 8, 10, 2, 4, 6>>), NoJackpot)
RecShort == Candidate("6/42", D0, Nums(<<1, 2, 3, 4, 5>>), Jackpot(6000))
RecC == Candidate("6/45", D0, Nums(<<3, 15, 22, 28, 36, 44>>), NoJackpot)
RecD == Candidate("6/42", D1, Nums(<<24, 38, 18, 30, 9, 27>>), Jackpot(7997))

Pool == {RecA, RecB, RecShort, RecC, RecD, NullCandidate}
ConcPool == {RecA, RecB}

SeqsUpTo(S, n) == UNION {[1..k -> S] : k \in 0..n}

Options ==
    [skipDuplicates : BOOLEAN, validateData : BOOLEAN, batchSize : 1..MaxBatch]
        \cup {DEFAULT_OPTIONS}

HasNull(rs) == \E k \in 1..Len(rs) : rs[k].isNull

\* A call of importLotteryResults.  The parameter is typed LotteryResultData[], so
\* a null element arrives only through the route handler, which casts the request
\* body unchecked and passes no options.
Invocations(pool, maxLen) ==
    {x \in [results : SeqsUpTo(pool, maxLen), opts : Options] :
        HasNull(x.results) => x.opts = DEFAULT_OPTIONS}

\* a row of an earlier import (prisma/seed.ts: 6/42 on 2025-09-02)
SeedRow ==
    [gameId |-> "6/42", drawDate |-> ParseDate("2025-09-02").ts,
     numbers |-> Nums(<<40, 14, 16, 29, 35, 18>>), jackpot |-> Jackpot(7322)]

InitStore ==
    /\ games \in {GameNames, GameNames \ {"6/45"}}
    /\ rows \in {<<>>, <<SeedRow>>}
    /\ storeDown = FALSE

\* ------------------------------------------------------------------ specifications

\* no pure function is being applied; importAllHistoricalData is not running
NoApplication == [fn |-> "none"]
NoHistorical == [pc |-> "idle"]

\* one import at a time
Init ==
    /\ InitStore
    /\ \E x \in Invocations(Pool, MaxLen) :
           call = [c \in Calls |-> IF c = 1 THEN NewCall(x.results, x.opts) ELSE IdleCall]
    /\ ops = [c \in Calls |-> <<>>]
    /\ app = NoApplication
    /\ hist = NoHistorical

Next ==
    \/ \E c \in Calls : Begin(c)
    \/ \E c \in Calls : ChunkLoop(c)
    \/ \E c \in Calls : NextRecord(c)
    \/ \E c \in Calls : FindGame(c, BOOLEAN)
    \/ \E c \in Calls : FindExisting(c, BOOLEAN)
    \/ \E c \in Calls : Create(c, BOOLEAN)
    \/ StoreUnreachable

Spec == Init /\ [][Next]_vars

\* two imports running concurrently (two requests to the import route)
InitConc ==
    /\ games = GameNames
    /\ rows \in {<<>>, <<SeedRow>>}
    /\ storeDown = FALSE
    /\ \E x \in Invocations(ConcPool, MaxConcLen), y \in Invocations(ConcPool, MaxConcLen) :
           call = [c \in Calls |-> IF c = 1 THEN NewCall(x.results, x.opts)
                                            ELSE NewCall(y.results, y.opts)]
    /\ ops = [c \in Calls |-> <<>>]
    /\ app = NoApplication
    /\ hist = NoHistorical

\* the store stays reachable and its operations fail only on the unique index
NextConc ==
    \/ \E c \in Calls : Begin(c)
    \/ \E c \in Calls : ChunkLoop(c)
    \/ \E c \in Calls : NextRecord(c)
    \/ \E c \in Calls : FindGame(c, {FALSE})
    \/ \E c \in Calls : FindExisting(c, {FALSE})
    \/ \E c \in Calls : Create(c, {FALSE})

SpecConc == InitConc /\ [][NextConc]_vars

\* ------------------------------------------------------------------ the validator alone

\* the candidate is handed to validateLotteryResult
Validate ==
    /\ app.fn = "candidate"
    /\ app' = [fn |-> "validated", data |-> app.data,
               validation |-> validateLotteryResult(app.data)]
    /\ UNCHANGED <<games, rows, storeDown, call, ops, hist>>

\* validateLotteryResults, lines 131-132: an accepted record is cleaned
Clean ==
    /\ app.fn = "validated"
    /\ app.validation.isValid
    /\ app' = [fn |-> "cleaned", data |-> app.data, validation |-> app.validation,
               cleaned |-> cleanLotteryResult(app.data)]
    /\ UNCHANGED <<games, rows, storeDown, call, ops, hist>>

\* the cleaned record is handed to cleanLotteryResult once more
CleanAgain ==
    /\ app.fn = "cleaned"
    /\ app' = [fn |-> "recleaned", data |-> app.data, validation |-> app.validation,
               cleaned |-> app.cleaned,
               recleaned |-> cleanLotteryResult(app.cleaned)]
    /\ UNCHANGED <<games, rows, storeDown, call, ops, hist>>

\* the candidate is posted to the import route on its own
ImportCandidate ==
    /\ app.fn = "validated"
    /\ call[1].pc = "idle"
    /\ app' = [fn |-> "imported", data |-> app.data, validation |-> app.validation]
    /\ call' = [call EXCEPT ![1] = NewCall(<<app.data>>, DEFAULT_OPTIONS)]
    /\ UNCHANGED <<games, rows, storeDown, ops, hist>>

MaxTail == 2

\* values of the elements the arrays end in: below the range, in it, above the
\* range of 6/42 only, and one that is not an integer
TailValues == {N(0), N(2), N(5), N(6), N(43), N(3) + 1}

InputNumbers == {Nums(<<1, 2, 3, 4>>) \o t : t \in SeqsUpTo(TailValues, MaxTail)}

InputNames == {"6/42", "6/45", " 6/42 ", "", "7/77"}

InputDates ==
    {D0, DateString("2025-09-30"), DateString("1990-01-01"), DateString("not a date"),
     DateObject(487992 + 12)}

\* absent, 0, 0.004, 6000, 1234.567 and -1
InputJackpots == {NoJackpot, <<0>>, <<4>>, Jackpot(6000), <<1234567>>, <<0 - 1000>>}

ValidatorInputs ==
    {Candidate(g, d, ns, j) :
        g \in InputNames, d \in InputDates, ns \in InputNumbers, j \in InputJackpots}

InitValidate ==
    /\ games = GameNames
    /\ rows = <<>>
    /\ storeDown = FALSE
    /\ call = [c \in Calls |-> IdleCall]
    /\ ops = [c \in Calls |-> <<>>]
    /\ \E d \in ValidatorInputs : app = [fn |-> "candidate", data |-> d]
    /\ hist = NoHistorical

NextValidate ==
    \/ Validate
    \/ Clean
    \/ CleanAgain
    \/ ImportCandidate
    \/ NextConc

SpecValidate == InitValidate /\ [][NextValidate]_vars

\* ------------------------------------------------------------------ historical import

\* Object.keys(LOTTERY_GAMES), in insertion order
Catalog == <<"6/42", "6/45", "6/49", "6/55", "6/58">>

MaxScraped == 1

\* generateMockHistoricalData: one record for each draw day of the game in the
\* date range (draw days are taken two days apart), with numberCount distinct
\* numbers in ascending order and a rounded jackpot; nothing for an unknown game
MockDay(k) == 487992 + 48 * (k - 1)

MockRecord(gameType, k) ==
    Candidate(gameType, DateObject(MockDay(k)), Nums(<<3, 11, 19, 27, 35, 41>>), Jackpot(5000))

generateMockHistoricalData(gameType, days) ==
    IF gameType \in GameNames THEN [k \in 1..days |-> MockRecord(gameType, k)] ELSE <<>>

\* scrapePCSOResults, lines 32-55: the fetched records validated and cleaned
ScrapeSucceeded(mockResults) ==
    LET v == validateLotteryResults(mockResults)
    IN  [success |-> TRUE, thrown |-> FALSE, data |-> v.validResults,
         errors |-> [k \in 1..Len(v.invalidResults) |-> Msg("InvalidResult", "", 0, 0)],
         message |-> ""]

\* scrapePCSOResults, lines 56-64: the fetch failed and the adapter says so
ScrapeFailed(message) ==
    [success |-> FALSE, thrown |-> FALSE, data |-> <<>>,
     errors |-> <<Msg("ScrapingFailed", message, 0, 0)>>, message |-> ""]

\* the adapter rejects instead of returning
ScrapeThrew(message) ==
    [success |-> FALSE, thrown |-> TRUE, data |-> <<>>, errors |-> <<>>,
     message |-> message]

\* what a call of the adapter for a game may come back with
ScrapeOutcomes(gameType) ==
    {ScrapeSucceeded(generateMockHistoricalData(gameType, days)) : days \in 0..MaxScraped}
        \cup {ScrapeFailed("Unknown error"), ScrapeThrew("fetch failed")}

\* a failure result that forgets the errors
ZeroResultNoErrors(errors) ==
    [success |-> FALSE, imported |-> 0, skipped |-> 0, errors |-> <<>>,
     details |-> [total |-> 0, valid |-> 0, invalid |-> 0, duplicates |-> 0]]

\* importHistoricalData, lines 185-191 and 196-202
ZeroResult(errors) ==
    [success |-> FALSE, imported |-> 0, skipped |-> 0, errors |-> errors,
     details |-> [total |-> 0, valid |-> 0, invalid |-> 0, duplicates |-> 0]]

\* the locals of importAllHistoricalData, or of one importHistoricalData called
\* by the route: the games to process, the one being processed, the adapter's
\* answer, the result of the game, the mapping built so far, the pauses that
\* elapsed and the adapter calls issued
NewHistorical(mode, queue) ==
    [pc |-> "scrape", mode |-> mode, queue |-> queue, g |-> 1,
     scraping |-> ScrapeFailed(""), ret |-> NoResult, results |-> <<>>,
     paused |-> 0, fetches |-> <<>>]

GameType(h) == h.queue[h.g]

\* lines 184-192: the adapter reported failure
OnScrapeFailed(h) == [h EXCEPT !.ret = ZeroResult(h.scraping.errors), !.pc = "returned"]

\* lines 195-203: the adapter threw
OnScrapeThrew(h) ==
    [h EXCEPT !.ret = ZeroResult(<<Msg("ScrapingFailed", h.scraping.message, 0, 0)>>),
              !.pc = "returned"]

\* results[gameType] = result on an object whose entries are kept in insertion order
Assign(results, gameType, result) ==
    IF \E k \in 1..Len(results) : results[k].gameType = gameType
        THEN [k \in 1..Len(results) |->
                 IF results[k].gameType = gameType
                     THEN [gameType |-> gameType, result |-> result] ELSE results[k]]
        ELSE Append(results, [gameType |-> gameType, result |-> result])

\* a loop that gives up at the first game that did not succeed
StoreResultStopOnFailure(h) ==
    [h EXCEPT !.results = Assign(@, GameType(h), h.ret),
              !.pc = IF h.ret.success THEN "pause" ELSE "finished"]

\* line 219: results[gameType] = the result of importHistoricalData
StoreResult(h) ==
    [h EXCEPT !.results = Assign(@, GameType(h), h.ret),
              !.pc = "pause"]

\* lines 222-223 and 235: the pause elapsed; the next game, or the return
AfterPause(h) ==
    IF h.g < Len(h.queue)
        THEN [h EXCEPT !.paused = @ + 1, !.g = @ + 1, !.pc = "scrape"]
        ELSE [h EXCEPT !.paused = @ + 1, !.pc = "finished"]

\* line 182: scrapePCSOResults is called and comes back
Scrape ==
    /\ hist.pc = "scrape"
    /\ \E outcome \in ScrapeOutcomes(GameType(hist)) :
           hist' = [hist EXCEPT !.scraping = outcome, !.pc = "scraped",
                                !.fetches = Append(@, GameType(hist))]
    /\ UNCHANGED <<games, rows, storeDown, call, ops, app>>

\* lines 184-203: the failure returns, or importLotteryResults is called
AfterScrape ==
    /\ hist.pc = "scraped"
    /\ IF hist.scraping.thrown
           THEN hist' = OnScrapeThrew(hist) /\ UNCHANGED <<call, ops>>
       ELSE IF ~hist.scraping.success
           THEN hist' = OnScrapeFailed(hist) /\ UNCHANGED <<call, ops>>
       ELSE /\ hist' = [hist EXCEPT !.pc = "importing"]
            /\ call' = [call EXCEPT ![1] = NewCall(hist.scraping.data, DEFAULT_OPTIONS)]
            /\ ops' = [ops EXCEPT ![1] = <<>>]
    /\ UNCHANGED <<games, rows, storeDown, app>>

\* line 194: importLotteryResults returned
ImportReturned ==
    /\ hist.pc = "importing"
    /\ call[1].pc = "done"
    /\ hist' = [hist EXCEPT !.ret = call[1].ret, !.pc = "returned"]
    /\ UNCHANGED <<games, rows, storeDown, call, ops, app>>

\* line 219: importHistoricalData returned to the loop
GameDone ==
    /\ hist.pc = "returned"
    /\ hist.mode = "all"
    /\ hist' = StoreResult(hist)
    /\ UNCHANGED <<games, rows, storeDown, call, ops, app>>

\* line 222: the timer of the pause fired
PauseElapsed ==
    /\ hist.pc = "pause"
    /\ hist' = AfterPause(hist)
    /\ UNCHANGED <<games, rows, storeDown, call, ops, app>>

\* the route calls importAllHistoricalData, or importHistoricalData for one game
InitHistorical ==
    /\ InitStore
    /\ call = [c \in Calls |-> IdleCall]
    /\ ops = [c \in Calls |-> <<>>]
    /\ app = NoApplication
    /\ \/ hist = NewHistorical("all", Catalog)
       \/ \E g \in GameNames \cup {"7/77"} : hist = NewHistorical("historical", <<g>>)

NextHistorical ==
    \/ Scrape
    \/ AfterScrape
    \/ ImportReturned
    \/ GameDone
    \/ PauseElapsed
    \/ NextConc

SpecHistorical == InitHistorical /\ [][NextHistorical]_vars

\* ------------------------------------------------------------------ duplicate groups

\* the offset of the server's local time from UTC, in hours (Asia/Manila)
TimezoneOffset == 8

\* Date.prototype.toDateString: the local calendar day, as a day number; -1 for
\* the text "Invalid Date"
ToDateString(d) == IF d.nan THEN 0 - 1 ELSE (d.ts + TimezoneOffset) \div 24

\* a key that leaves the game out
DuplicateKeyDateOnly(result) == <<"", ToDateString(NewDate(result.drawDate))>>

\* line 159: `${result.gameName}-${new Date(result.drawDate).toDateString()}`
DuplicateKey(result) == <<result.gameName, ToDateString(NewDate(result.drawDate))>>

detectDuplicates(results) ==
    LET RECURSIVE ForEach(_, _)
        ForEach(k, seen) ==
            IF k > Len(results) THEN seen
            ELSE LET key == DuplicateKey(results[k])
                     has == \E m \in 1..Len(seen) : seen[m].key = key
                     set == IF has THEN seen ELSE Append(seen, [key |-> key, group |-> <<>>])
                     pushed == [m \in 1..Len(set) |->
                                   IF set[m].key = key
                                       THEN [set[m] EXCEPT !.group = Append(@, results[k])]
                                       ELSE set[m]]
                 IN  ForEach(k + 1, pushed)
        seen == ForEach(1, <<>>)
        MoreThanOne(e) == Len(e.group) > 1
        kept == SelectSeq(seen, MoreThanOne)
    IN  [m \in 1..Len(kept) |-> kept[m].group]

\* the results are handed to detectDuplicates
DetectDuplicates ==
    /\ app.fn = "results"
    /\ app' = [fn |-> "detectDuplicates", arg |-> app.arg, out |-> detectDuplicates(app.arg)]
    /\ UNCHANGED <<games, rows, storeDown, call, ops, hist>>

MaxResults == 4

RecNoon ==
    Candidate("6/42", DateString("2025-09-02T12:00:00Z"), Nums(<<2, 4, 6, 8, 10, 12>>), NoJackpot)

\* clean records: two games, two days, two draws of one game on one day
CleanPool == {cleanLotteryResult(r) : r \in {RecA, RecB, RecC, RecD, RecNoon}}

InitDuplicates ==
    /\ games = GameNames
    /\ rows = <<>>
    /\ storeDown = FALSE
    /\ call = [c \in Calls |-> IdleCall]
    /\ ops = [c \in Calls |-> <<>>]
    /\ \E rs \in SeqsUpTo(CleanPool, MaxResults) : app = [fn |-> "results", arg |-> rs]
    /\ hist = NoHistorical

NextDuplicates == DetectDuplicates

SpecDuplicates == InitDuplicates /\ [][NextDuplicates]_vars

\* the results that went through detectDuplicates are then imported, in their
\* order, with the default options (skipDuplicates = true)
ImportDetected ==
    /\ app.fn = "detectDuplicates"
    /\ call[1].pc = "idle"
    /\ app' = [fn |-> "importDetected", arg |-> app.arg, out |-> app.out]
    /\ call' = [call EXCEPT ![1] = NewCall(app.arg, DEFAULT_OPTIONS)]
    /\ UNCHANGED <<games, rows, storeDown, ops, hist>>

\* two clean records of existing games; the table holds nothing, or a row of a
\* day none of them has
InitAgree ==
    /\ games = GameNames
    /\ rows \in {<<>>, <<[SeedRow EXCEPT !.drawDate = ParseDate("2025-09-30").ts]>>}
    /\ storeDown = FALSE
    /\ call = [c \in Calls |-> IdleCall]
    /\ ops = [c \in Calls |-> <<>>]
    /\ \E a \in CleanPool, b \in CleanPool : app = [fn |-> "results", arg |-> <<a, b>>]
    /\ hist = NoHistorical

NextAgree ==
    \/ DetectDuplicates
    \/ ImportDetected
    \/ NextConc

SpecAgree == InitAgree /\ [][NextAgree]_vars

\* ------------------------------------------------------------------ statistics

RECURSIVE Flatten(_)
Flatten(ss) == IF ss = <<>> THEN <<>> ELSE Head(ss) \o Flatten(Tail(ss))

\* a frequency table that only marks the numbers drawn
NumberFrequencyPresence(results) ==
    [n \in Range(Flatten([k \in 1..Len(results) |-> results[k].numbers])) |-> 1]

\* lines 323-328: numberFrequency[num] = (numberFrequency[num] || 0) + 1 for each
\* number of each result, taken result by result: the table after a result has
\* an entry for each number met so far, raised by the times the result holds it
NumberFrequency(results) ==
    LET RECURSIVE ForEach(_)
        ForEach(k) ==
            IF k = 0 THEN <<>>
            ELSE LET freq == ForEach(k - 1)
                     numbers == results[k].numbers
                 IN  [n \in DOMAIN freq \cup Range(numbers) |->
                         (IF n \in DOMAIN freq THEN freq[n] ELSE 0)
                             + Cardinality({i \in 1..Len(numbers) : numbers[i] = n})]
    IN  ForEach(Len(results))

\* the elements of a set of numbers, ascending: the order of Object.entries on
\* integer keys
RECURSIVE Ascending(_)
Ascending(S) ==
    IF S = {} THEN <<>>
    ELSE LET least == CHOOSE n \in S : \A m \in S : n <= m
         IN  <<least>> \o Ascending(S \ {least})

\* lines 331-333: the stable sort of the entries by count, largest first
RECURSIVE InsertByCount(_, _, _)
InsertByCount(n, s, freq) ==
    IF s = <<>> THEN <<n>>
    ELSE IF freq[n] > freq[Head(s)] THEN <<n>> \o s
    ELSE <<Head(s)>> \o InsertByCount(n, Tail(s), freq)

RECURSIVE SortByCount(_, _)
SortByCount(s, freq) ==
    IF s = <<>> THEN <<>>
    ELSE InsertByCount(s[Len(s)], SortByCount(SubSeq(s, 1, Len(s) - 1), freq), freq)

\* the sequence left in the order it has
KeepOrder(s) == s

\* line 336: .reverse()
Reverse(s) == [k \in 1..Len(s) |-> s[Len(s) - k + 1]]

\* calculateGameStatistics on the rows of one game; a jackpot average is held as
\* the sum and the number of jackpots it is the quotient of
calculateGameStatistics(results) ==
    IF Len(results) = 0
        THEN [totalDraws |-> 0,
              dateRange |-> [earliest |-> <<>>, latest |-> <<>>, daysCovered |-> 0],
              numberFrequency |-> <<>>, hotNumbers |-> <<>>, coldNumbers |-> <<>>,
              averageJackpot |-> [sum |-> 0, over |-> 1], largestJackpot |-> 0]
    ELSE
        LET dates == SortAsc([k \in 1..Len(results) |-> results[k].drawDate])
            earliest == dates[1]
            latest == dates[Len(dates)]
            numberFrequency == NumberFrequency(results)
            sortedNumbers == SortByCount(Ascending(DOMAIN numberFrequency), numberFrequency)
            IsPositive(j) == j > 0
            jackpots == SelectSeq([k \in 1..Len(results) |->
                                      IF results[k].jackpot = <<>> THEN 0
                                      ELSE results[k].jackpot[1]], IsPositive)
            RECURSIVE Largest(_)
            Largest(js) == IF Len(js) = 1 THEN js[1] ELSE Max2(Head(js), Largest(Tail(js)))
        IN  [totalDraws |-> Len(results),
             dateRange |-> [earliest |-> <<earliest>>, latest |-> <<latest>>,
                            daysCovered |-> (latest - earliest + 23) \div 24],
             numberFrequency |-> numberFrequency,
             hotNumbers |-> Slice(sortedNumbers, 0, 10),
             coldNumbers |-> Reverse(Slice(sortedNumbers, 0 - 10, Len(sortedNumbers))),
             averageJackpot |-> IF Len(jackpots) > 0
                                    THEN [sum |-> SeqSum(jackpots), over |-> Len(jackpots)]
                                    ELSE [sum |-> 0, over |-> 1],
             largestJackpot |-> IF Len(jackpots) > 0 THEN Largest(jackpots) ELSE 0]

\* the rows of a game are handed to calculateGameStatistics
CalculateGameStatistics ==
    /\ app.fn = "game"
    /\ app' = [fn |-> "calculateGameStatistics", arg |-> app.arg,
               out |-> calculateGameStatistics(app.arg)]
    /\ UNCHANGED <<games, rows, storeDown, call, ops, hist>>

MaxDraws == 3

\* numbers arrays of rows of lottery_results: written by the importer, by the
\* seed script (unsorted), and by an import without validation (too short)
DrawnNumbers ==
    {Nums(<<1, 2, 3, 4, 5, 6>>), Nums(<<2, 4, 6, 8, 10, 12>>),
     Nums(<<40, 14, 16, 29, 35, 18>>), Nums(<<1, 2, 3, 4, 5>>)}

\* the rows of one game, latest draw first, one row for a draw day
GameResults(n) ==
    {[k \in 1..n |-> [gameId |-> "6/42", drawDate |-> MockDay(n - k + 1),
                      numbers |-> f[k].numbers, jackpot |-> f[k].jackpot]] :
        f \in [1..n -> [numbers : DrawnNumbers, jackpot : {NoJackpot, Jackpot(6000)}]]}

InitStatistics ==
    /\ games = GameNames
    /\ rows = <<>>
    /\ storeDown = FALSE
    /\ call = [c \in Calls |-> IdleCall]
    /\ ops = [c \in Calls |-> <<>>]
    /\ \E n \in 0..MaxDraws : \E rs \in GameResults(n) : app = [fn |-> "game", arg |-> rs]
    /\ hist = NoHistorical

NextStatistics == CalculateGameStatistics

SpecStatistics == InitStatistics /\ [][NextStatistics]_vars

\* ------------------------------------------------------------------ number analysis

\* take: 100 of the query and slice(0, 20) of the pattern analysis
TakeLast == 100
RecentDraws == 20

\* the adjacent positions the consecutive count is set against, line 565
PairsPerResult == 5

\* a percentage cut to one decimal instead of rounded
ToFixed1Truncated(part, whole) == [fixed |-> TRUE, tenths |-> (1000 * part) \div whole]

\* (part / whole * 100).toFixed(1): the percentage in tenths, rounded to the
\* nearest tenth, a half upwards
ToFixed1(part, whole) ==
    [fixed |-> TRUE, tenths |-> (2 * 1000 * part + whole) \div (2 * whole)]

\* the number 0 returned in place of a percentage when there is nothing to divide by
ZeroNumber == [fixed |-> FALSE, tenths |-> 0]

\* lines 474-482: the game with its results, latest draw first, 100 at most;
\* no game of that name gives null
GameWithResults(gameType) ==
    LET OfGame(r) == r.gameId = gameType
        RECURSIVE InsertLatestFirst(_, _)
        InsertLatestFirst(r, s) ==
            IF s = <<>> THEN <<r>>
            ELSE IF r.drawDate > Head(s).drawDate THEN <<r>> \o s
            ELSE <<Head(s)>> \o InsertLatestFirst(r, Tail(s))
        RECURSIVE OrderBy(_)
        OrderBy(s) == IF s = <<>> THEN <<>> ELSE InsertLatestFirst(Head(s), OrderBy(Tail(s)))
    IN  IF ~GameExists(gameType) THEN [isNull |-> TRUE]
        ELSE [isNull |-> FALSE,
              maxNumber |-> LOTTERY_GAMES[gameType].maxNumber,
              numberCount |-> LOTTERY_GAMES[gameType].numberCount,
              results |-> Slice(OrderBy(SelectSeq(rows, OfGame)), 0, TakeLast)]

\* lines 514-530
calculateEvenOddRatio(results) ==
    LET drawn == Flatten([k \in 1..Len(results) |-> results[k].numbers])
        evenCount == Cardinality({k \in 1..Len(drawn) : (drawn[k] \div NumScale) % 2 = 0})
        oddCount == Len(drawn) - evenCount
        total == evenCount + oddCount
    IN  [even |-> IF total > 0 THEN ToFixed1(evenCount, total) ELSE ZeroNumber,
         odd |-> IF total > 0 THEN ToFixed1(oddCount, total) ELSE ZeroNumber]

\* lines 532-549
calculateHighLowRatio(results, maxNumber) ==
    LET midpoint == (maxNumber + 1) \div 2
        drawn == Flatten([k \in 1..Len(results) |-> results[k].numbers])
        highCount == Cardinality({k \in 1..Len(drawn) : drawn[k] > N(midpoint)})
        lowCount == Len(drawn) - highCount
        total == highCount + lowCount
    IN  [high |-> IF total > 0 THEN ToFixed1(highCount, total) ELSE ZeroNumber,
         low |-> IF total > 0 THEN ToFixed1(lowCount, total) ELSE ZeroNumber]

\* lines 551-567: in each result sorted ascending, the positions whose successor
\* is one larger
findConsecutivePatterns(results) ==
    LET InResult(k) ==
            LET sorted == SortAsc(results[k].numbers)
            IN  Cardinality({i \in 1..(Len(sorted) - 1) : sorted[i + 1] = sorted[i] + N(1)})
        consecutiveCount == SeqSum([k \in 1..Len(results) |-> InResult(k)])
    IN  [frequency |-> consecutiveCount,
         percentage |-> IF Len(results) > 0
                            THEN ToFixed1(consecutiveCount, Len(results) * PairsPerResult)
                            ELSE ZeroNumber]

\* the gaps looked for among 0..maxNumber - 1
calculateNumberGapsFromZero(results, maxNumber) ==
    LET drawnNumbers == Range(Flatten([k \in 1..Len(results) |-> results[k].numbers]))
        NotDrawn(num) == num \notin drawnNumbers
        gaps == SelectSeq([i \in 1..maxNumber |-> N(i - 1)], NotDrawn)
    IN  [missingNumbers |-> gaps,
         missingCount |-> Len(gaps),
         coverage |-> [fixed |-> TRUE,
                       tenths |-> (2 * 1000 * (maxNumber - Len(gaps)) + maxNumber)
                                      \div (2 * maxNumber)]]

\* lines 569-584: the numbers of 1..maxNumber that no result holds, ascending
calculateNumberGaps(results, maxNumber) ==
    LET drawnNumbers == Range(Flatten([k \in 1..Len(results) |-> results[k].numbers]))
        NotDrawn(num) == num \notin drawnNumbers
        gaps == SelectSeq([i \in 1..maxNumber |-> N(i)], NotDrawn)
    IN  [missingNumbers |-> gaps,
         missingCount |-> Len(gaps),
         coverage |-> ToFixed1(maxNumber - Len(gaps), maxNumber)]

\* lines 488-506: the statistics of the results read, with the patterns of the
\* first 20 of them and the configuration of the game
getNumberAnalysis(game) ==
    LET analysis == calculateGameStatistics(game.results)
        recentDraws == Slice(game.results, 0, RecentDraws)
        patterns == [evenOddRatio |-> calculateEvenOddRatio(recentDraws),
                     highLowRatio |-> calculateHighLowRatio(recentDraws, game.maxNumber),
                     consecutiveNumbers |-> findConsecutivePatterns(recentDraws),
                     numberGaps |-> calculateNumberGaps(recentDraws, game.maxNumber)]
    IN  analysis @@ [patterns |-> patterns,
                     gameConfig |-> [maxNumber |-> game.maxNumber,
                                     numberCount |-> game.numberCount]]

\* getNumberAnalysis(gameType): the query, then the analysis; a game that is not
\* found and a failure of the query both end in 'Failed to analyze numbers'
GetNumberAnalysis ==
    /\ app.fn = "gameType"
    /\ \E fails \in BOOLEAN :
          LET game == GameWithResults(app.arg)
          IN  app' = IF fails \/ game.isNull
                         THEN [fn |-> "getNumberAnalysis", arg |-> app.arg, threw |-> TRUE,
                               out |-> <<>>]
                         ELSE [fn |-> "getNumberAnalysis", arg |-> app.arg, threw |-> FALSE,
                               out |-> getNumberAnalysis(game)]
    /\ UNCHANGED <<games, rows, storeDown, call, ops, hist>>

MaxOlder == 1

\* the stored history of 6/42, oldest row first, one row for a draw day: a short
\* history of any rows, or 20 recent rows of one draw after some older rows
Histories ==
    UNION {{Reverse(rs) : rs \in GameResults(n)} : n \in 0..MaxDraws}
    \cup UNION {{[k \in 1..(older + RecentDraws) |->
                    [gameId |-> "6/42", drawDate |-> MockDay(k),
                     numbers |-> IF k <= older THEN old[k] ELSE recent,
                     jackpot |-> NoJackpot]] :
                  old \in [1..older -> DrawnNumbers], recent \in DrawnNumbers} :
               older \in 1..MaxOlder}

\* a row of another game, in front of the history or not
OtherGameRows ==
    {<<>>, <<[gameId |-> "6/45", drawDate |-> MockDay(1),
              numbers |-> Nums(<<7, 8, 21, 30, 44, 45>>), jackpot |-> NoJackpot]>>}

InitAnalysis ==
    /\ games = GameNames
    /\ \E history \in Histories : \E other \in OtherGameRows : rows = other \o history
    /\ storeDown = FALSE
    /\ call = [c \in Calls |-> IdleCall]
    /\ ops = [c \in Calls |-> <<>>]
    /\ \E gameType \in {"6/42", "7/77"} : app = [fn |-> "gameType", arg |-> gameType]
    /\ hist = NoHistorical

NextAnalysis == GetNumberAnalysis

SpecAnalysis == InitAnalysis /\ [][NextAnalysis]_vars

\* ------------------------------------------------------------------ CSV import

\* A CSV text is held as its lines, a line as its comma-separated cells.

\* line 243: a line whose trimmed text is empty
IsBlankLine(line) == Len(line) = 1 /\ Trim(line[1]) = ""

\* .replace(/"/g, '') on the cells the inputs use
StripQuotes(v) ==
    CASE v = "\"6/42\"" -> "6/42"
      [] OTHER -> v

\* lines 262-266 on the cells the inputs use: brackets and quotes removed, split
\* at ';', parseInt of each part (a fraction is cut off), the NaN parts dropped
ParseNumbers(v) ==
    CASE v = "1;2;3;4;5;6" -> Nums(<<1, 2, 3, 4, 5, 6>>)
      [] v = "[2;4;6;8;10;12]" -> Nums(<<2, 4, 6, 8, 10, 12>>)
      [] v = "1.5;2;3;4;5;6" -> Nums(<<1, 2, 3, 4, 5, 6>>)
      [] v = "1;2;x;4;5;6" -> Nums(<<1, 2, 4, 5, 6>>)
      [] OTHER -> <<>>

\* parseFloat on the jackpot cells the inputs use (they are all numeric)
ParseFloat(v) ==
    CASE v = "6000" -> Jackpot(6000)

\* h.toLowerCase().includes(header.toLowerCase()) on the headers the inputs use
Includes(h, header) ==
    <<h, header>> \in {<<"gameName", "gameName">>, <<"drawDate", "drawDate">>,
                       <<"numbers", "numbers">>, <<"Winning Numbers", "numbers">>,
                       <<"jackpot", "jackpot">>}

\* lines 248-252: the position of the first header that includes the expected
\* one; 0 when there is none (no entry in headerMap)
HeaderMap(headers) ==
    [header \in {"gameName", "drawDate", "numbers", "jackpot"} |->
        LET found == {k \in 1..Len(headers) : Includes(headers[k], header)}
        IN  IF found = {} THEN 0 ELSE CHOOSE k \in found : \A m \in found : k <= m]

\* lines 257-278, one data row: nothing for a row with fewer cells than headers
\* (continue) and for a row whose numbers, gameName or drawDate cell is
\* undefined, .replace throwing on it (catch); a candidate for any other row
ParseRow(values, headers) ==
    LET headerMap == HeaderMap(headers)
    IN  IF Len(values) < Len(headers) THEN <<>>
        ELSE IF headerMap["numbers"] = 0 \/ headerMap["gameName"] = 0 \/ headerMap["drawDate"] = 0
            THEN <<>>
        ELSE <<Candidate(StripQuotes(values[headerMap["gameName"]]),
                         ParseDate(StripQuotes(values[headerMap["drawDate"]])),
                         ParseNumbers(values[headerMap["numbers"]]),
                         IF headerMap["jackpot"] # 0
                             THEN ParseFloat(values[headerMap["jackpot"]]) ELSE NoJackpot)>>

\* line 243 and lines 256-279: the non-blank lines with their cells trimmed, the
\* candidates of the lines after the first
TrimmedLines(csvContent) ==
    LET NotBlank(line) == ~IsBlankLine(line)
        kept == SelectSeq(csvContent, NotBlank)
    IN  [k \in 1..Len(kept) |-> [i \in 1..Len(kept[k]) |-> Trim(kept[k][i])]]

ParsedResults(lines) ==
    Flatten([k \in 1..(Len(lines) - 1) |-> ParseRow(lines[k + 1], lines[1])])

\* lines 283-289: the result of the catch block
CsvParsingFailed ==
    [success |-> FALSE, imported |-> 0, skipped |-> 0,
     errors |-> <<Msg("CSVParsingFailed", "", 0, 0)>>,
     details |-> [total |-> 0, valid |-> 0, invalid |-> 0, duplicates |-> 0]]

\* importFromCSV up to its call of importLotteryResults(results), whose result
\* it returns; a text without a non-blank line throws at lines[0].split
ImportFromCSV ==
    /\ app.fn = "csv"
    /\ call[1].pc = "idle"
    /\ LET lines == TrimmedLines(app.arg)
       IN  IF Len(lines) = 0
               THEN /\ app' = [fn |-> "importFromCSV", arg |-> app.arg, lines |-> lines,
                               threw |-> TRUE, ret |-> CsvParsingFailed]
                    /\ call' = call
               ELSE /\ app' = [fn |-> "importFromCSV", arg |-> app.arg, lines |-> lines,
                               threw |-> FALSE, ret |-> NoResult]
                    /\ call' = [call EXCEPT ![1] =
                                   NewCall(ParsedResults(lines), DEFAULT_OPTIONS)]
    /\ UNCHANGED <<games, rows, storeDown, ops, hist>>

MaxRows == 2

\* header lines: the expected one, one without a jackpot column, one with
\* another label for the numbers, one without a numbers column
CsvHeaders ==
    {<<"gameName", "drawDate", "numbers", "jackpot">>,
     <<"gameName", "drawDate", "numbers">>,
     <<"gameName", "drawDate", "Winning Numbers", "jackpot">>,
     <<"gameName", "drawDate", "jackpot">>}

\* data lines: well-formed ones, and lines with an unparsable date, unparsable
\* numbers, an empty game name, too few cells, nothing at all
CsvRows ==
    {<<" 6/42 ", "2025-09-02", "1;2;3;4;5;6", "6000">>,
     <<"\"6/42\"", "2025-09-04", "[2;4;6;8;10;12]", "6000">>,
     <<"6/42", "not-a-date", "1;2;3;4;5;6", "6000">>,
     <<"6/42", "2025-09-04", "abc", "6000">>,
     <<"", "2025-09-04", "1.5;2;3;4;5;6", "6000">>,
     <<"6/42", "2025-09-04">>,
     <<"">>}

CsvContents ==
    {<<>>, <<<<"">>>>} \cup {<<h>> \o rs : h \in CsvHeaders, rs \in SeqsUpTo(CsvRows, MaxRows)}

InitCSV ==
    /\ games = GameNames
    /\ rows \in {<<>>, <<SeedRow>>}
    /\ storeDown = FALSE
    /\ call = [c \in Calls |-> IdleCall]
    /\ ops = [c \in Calls |-> <<>>]
    /\ \E csvContent \in CsvContents : app = [fn |-> "csv", arg |-> csvContent]
    /\ hist = NoHistorical

NextCSV ==
    \/ ImportFromCSV
    \/ NextConc

SpecCSV == InitCSV /\ [][NextCSV]_vars

\* ------------------------------------------------------------------ batch sizes

MaxChunked == 3

\* records for the chunk loop: two draws of one day, a game that may be missing,
\* another day
BatchPool == {RecA, RecB, RecC, RecD}

\* options.batchSize is a number the caller chooses: 0 is among its values
BatchOptions ==
    [skipDuplicates : BOOLEAN, validateData : {TRUE}, batchSize : 0..MaxBatch]
        \cup {DEFAULT_OPTIONS}

InitBatch ==
    /\ InitStore
    /\ \E results \in SeqsUpTo(BatchPool, MaxChunked), opts \in BatchOptions :
           call = [c \in Calls |-> IF c = 1 THEN NewCall(results, opts) ELSE IdleCall]
    /\ ops = [c \in Calls |-> <<>>]
    /\ app = NoApplication
    /\ hist = NoHistorical

NextBatch == NextConc

SpecBatch == InitBatch /\ [][NextBatch]_vars

MaxFair == 2

\* one call on its own, the store answering every operation
InitFair ==
    /\ games = GameNames
    /\ rows = <<SeedRow>>
    /\ storeDown = FALSE
    /\ \E results \in SeqsUpTo({RecA, RecD}, MaxFair), opts \in BatchOptions :
           /\ opts.skipDuplicates
           /\ call = [c \in Calls |-> IF c = 1 THEN NewCall(results, opts) ELSE IdleCall]
    /\ ops = [c \in Calls |-> <<>>]
    /\ app = NoApplication
    /\ hist = NoHistorical

NextFair == NextConc

\* every store operation returns, and the continuation of an awaited operation
\* that returned is run: a call that can take a step takes one
SpecFair == InitFair /\ [][NextFair]_vars /\ WF_vars(NextFair)

\* ------------------------------------------------------------------ history

Done(c) == call[c].pc = "done"

StoreOps == {"findGame", "findExisting", "create"}
Failing == {"throw", "down", "unique"}

\* the store operations of call c, by operation and outcome
Entries(c, opset, outs) ==
    {k \in 1..Len(ops[c]) : ops[c][k].op \in opset /\ ops[c][k].out \in outs}

\* the store operations call c issued for the record at position p
EntriesAt(c, op, p) ==
    {k \in 1..Len(ops[c]) : ops[c][k].op = op /\ ops[c][k].pos = p}

\* records whose game was not found; records one of whose store operations threw
NotFound(c) == Cardinality(Entries(c, {"findGame"}, {"null"}))
Failed(c) == Cardinality(Entries(c, StoreOps, Failing))

CountKind(errs, kind) == Cardinality({k \in 1..Len(errs) : errs[k].kind = kind})

\* the errors call c has recorded so far
Recorded(c) ==
    IF Done(c) THEN call[c].ret.errors
    ELSE IF call[c].pc \in {"record", "findGame", "findExisting", "create"}
        THEN call[c].errors \o call[c].bErrors
    ELSE call[c].errors

\* ------------------------------------------------------------------ claims

\* C1 as stated: every returned result has
\* imported + skipped + details.invalid = details.total = number of candidates.
C1_Original ==
    \A c \in Calls : Done(c) =>
        LET r == call[c].ret
        IN  /\ r.details.total = Len(call[c].results)
            /\ r.imported + r.skipped + r.details.invalid = r.details.total

\* C1 amended: a record whose game is missing or whose store operation threw is
\* counted neither as imported nor as skipped; with those two counts added the
\* sum is details.total, the number of candidates.
C1_Accounting ==
    \A c \in Calls : Done(c) =>
        LET r == call[c].ret
        IN  /\ r.details.total = Len(call[c].results)
            /\ r.imported + r.skipped + r.details.invalid + NotFound(c) + Failed(c)
                   = r.details.total

C1_Witness ==
    \E c \in Calls :
        Done(c) /\ ~call[c].aborted /\ NotFound(c) >= 1 /\ call[c].ret.imported >= 1

C4_FailedRecordContinues ==
    \A c \in Calls :
        /\ CountKind(Recorded(c), "FailedToImport") = Failed(c)
        /\ \A k \in Entries(c, {"create"}, Failing) :
            LET p == ops[c][k].pos
            IN  /\ Cardinality(EntriesAt(c, "create", p)) = 1
                /\ ~call[c].aborted
                /\ Done(c) =>
                       \A q \in (p + 1)..Len(call[c].validResults) :
                           /\ Cardinality(EntriesAt(c, "findGame", q)) = 1
                           /\ Cardinality(EntriesAt(c, "findExisting", q)) <= 1
                           /\ Cardinality(EntriesAt(c, "create", q)) <= 1

C4_Witness ==
    \E c \in Calls :
        /\ Done(c)
        /\ \E k \in Entries(c, {"create"}, Failing), m \in Entries(c, {"create"}, {"ok"}) :
               ops[c][m].pos > ops[c][k].pos

\* C5 as stated: once the store is unreachable the call aborts: no store
\* operation for a later record, success = false, the abort message first.
C5_AbortOnUnreachable ==
    \A c \in Calls :
        (Done(c) /\ Entries(c, StoreOps, {"down"}) # {}) =>
            /\ call[c].aborted
            /\ ~call[c].ret.success
            /\ Head(call[c].ret.errors).kind = "ImportFailed"
            /\ Cardinality(Entries(c, StoreOps, {"down"})) = 1

\* the key of a record in lottery_results, and whether the table holds it
KeyOf(r) == <<r.gameName, NewDate(r.drawDate).ts>>
HasRow(rs, key) == \E k \in 1..Len(rs) : <<rs[k].gameId, rs[k].drawDate>> = key
RowsOf(rs, key) == {k \in 1..Len(rs) : <<rs[k].gameId, rs[k].drawDate>> = key}

\* the rows the table held before any of the calls created one
Created(c) == Entries(c, {"create"}, {"ok"})
InitialRows ==
    SubSeq(rows, 1, Len(rows) - SeqSum([c \in 1..Cardinality(Calls) |-> Cardinality(Created(c))]))

\* call c issues a store operation in this step, and the outcome of it
Issues(c, op) == call[c].pc = op /\ Len(ops'[c]) = Len(ops[c]) + 1
Outcome(c) == ops'[c][Len(ops'[c])].out
Reached(c) == Outcome(c) \notin {"throw", "down"}

\* the counters and error lists of call c other than those named are unchanged
SameCounts(c) ==
    /\ call'[c].imported = call[c].imported
    /\ call'[c].skipped = call[c].skipped
    /\ call'[c].errors = call[c].errors

\* C6: with skipDuplicates, a record whose key has a row when it is looked up
\* adds one to skipped, nothing to errors or imported, issues no create, and
\* processing goes on to the next record.
C6_DuplicateSkipped ==
    /\ [](\A c \in Calls :
            /\ \A k \in Entries(c, {"findExisting"}, {"row"}) :
                   /\ call[c].opts.skipDuplicates
                   /\ EntriesAt(c, "create", ops[c][k].pos) = {}
            /\ Done(c) =>
                   call[c].ret.skipped = Cardinality(Entries(c, {"findExisting"}, {"row"})))
    /\ [][\A c \in Calls :
            (/\ Issues(c, "findExisting")
             /\ Reached(c)
             /\ HasRow(rows, KeyOf(Current(call[c])))) =>
                /\ call'[c].bSkipped = call[c].bSkipped + 1
                /\ call'[c].bErrors = call[c].bErrors
                /\ call'[c].bImported = call[c].bImported
                /\ SameCounts(c)
                /\ rows' = rows
                /\ call'[c].pc = "record"
                /\ call'[c].j = call[c].j]_vars

C6_Witness ==
    \E c \in Calls :
        /\ Done(c)
        /\ call[c].ret.skipped >= 1
        /\ \E k \in Entries(c, {"findExisting"}, {"row"}), m \in Entries(c, {"findGame"}, Failing \cup {"row", "null"}) :
               ops[c][m].pos > ops[c][k].pos

C8_NoLookupRelyOnIndex ==
    /\ [](\A c \in Calls : ~call[c].opts.skipDuplicates =>
            /\ Entries(c, {"findExisting"}, Failing \cup {"row", "null"}) = {}
            /\ call[c].skipped = 0 /\ call[c].bSkipped = 0 /\ call[c].ret.skipped = 0)
    /\ [][\A c \in Calls : ~call[c].opts.skipDuplicates =>
            /\ (Issues(c, "findGame") /\ Outcome(c) = "row") => call'[c].pc = "create"
            /\ (/\ Issues(c, "create")
                /\ Reached(c)
                /\ HasRow(rows, KeyOf(Current(call[c])))) =>
                   /\ rows' = rows
                   /\ call'[c].bErrors =
                          Append(call[c].bErrors,
                                 Msg("FailedToImport", Current(call[c]).gameName,
                                     KeyOf(Current(call[c]))[2], 0))
                   /\ call'[c].bImported = call[c].bImported
                   /\ call'[c].bSkipped = 0
                   /\ SameCounts(c)
                   /\ call'[c].pc = "record"]_vars

C8_Witness ==
    \E c \in Calls :
        /\ Done(c) /\ ~call[c].opts.skipDuplicates
        /\ Entries(c, {"create"}, {"unique"}) # {}
        /\ CountKind(call[c].ret.errors, "FailedToImport") >= 1
        /\ call[c].ret.skipped = 0

\* C9: a record whose game has no row adds the error "Game not found: <name>",
\* adds nothing to imported or skipped, issues neither a duplicate lookup nor a
\* create, and processing goes on to the next record.
C9_GameNotFound ==
    /\ [](\A c \in Calls : \A k \in Entries(c, {"findGame"}, {"null"}) :
            /\ EntriesAt(c, "findExisting", ops[c][k].pos) = {}
            /\ EntriesAt(c, "create", ops[c][k].pos) = {})
    /\ [][\A c \in Calls :
            (/\ Issues(c, "findGame")
             /\ Reached(c)
             /\ Current(call[c]).gameName \notin games) =>
                /\ call'[c].bErrors =
                       Append(call[c].bErrors,
                              Msg("GameNotFound", Current(call[c]).gameName, 0, 0))
                /\ call'[c].bImported = call[c].bImported
                /\ call'[c].bSkipped = call[c].bSkipped
                /\ SameCounts(c)
                /\ rows' = rows
                /\ call'[c].pc = "record"
                /\ call'[c].j = call[c].j]_vars

C9_Witness ==
    \E c \in Calls :
        /\ Done(c)
        /\ CountKind(call[c].ret.errors, "GameNotFound") >= 1
        /\ \E k \in Entries(c, {"findGame"}, {"null"}), m \in Entries(c, {"create"}, {"ok"}) :
               ops[c][m].pos > ops[c][k].pos

\* C10: the table never holds two rows with the same (gameId, drawDate),
\* whatever the options and however concurrent imports interleave.
C10_UniqueKey ==
    \A k1 \in 1..Len(rows), k2 \in 1..Len(rows) :
        (rows[k1].gameId = rows[k2].gameId /\ rows[k1].drawDate = rows[k2].drawDate)
            => k1 = k2

\* both imports passed the duplicate lookup for one key, and the index turned
\* the second create down
C10_Witness ==
    /\ \A c \in Calls : Done(c) /\ call[c].opts.skipDuplicates
    /\ \E c \in Calls : Entries(c, {"create"}, {"unique"}) # {}
    /\ \E c \in Calls : Entries(c, {"create"}, {"ok"}) # {}

\* the numbers of a clean record of game g: numberCount of them, each an integer
\* in [1, maxNumber], pairwise distinct, ascending
WellFormedNumbers(numbers, g) ==
    /\ g \in GameNames
    /\ Len(numbers) = LOTTERY_GAMES[g].numberCount
    /\ \A k \in 1..Len(numbers) :
           /\ IsInteger(numbers[k])
           /\ numbers[k] >= N(1)
           /\ numbers[k] <= N(LOTTERY_GAMES[g].maxNumber)
    /\ \A k1, k2 \in 1..Len(numbers) : k1 < k2 => numbers[k1] # numbers[k2]
    /\ \A k \in 1..(Len(numbers) - 1) : numbers[k] <= numbers[k + 1]

\* C11: every record the validator accepts and the cleaner cleans, every member
\* of validateLotteryResults(...).validResults and every row written by an import
\* with validateData = true has numberCount numbers, each in [1, maxNumber],
\* pairwise distinct and in ascending order.
C11_CleanRecordNumbers ==
    /\ app.fn \in {"cleaned", "recleaned"} =>
           WellFormedNumbers(app.cleaned.numbers, app.cleaned.gameName)
    /\ \A c \in Calls :
           (call[c].opts.validateData /\ call[c].pc \notin {"idle", "start"}
                /\ ~call[c].aborted) =>
               \A k \in 1..Len(call[c].validResults) :
                   WellFormedNumbers(call[c].validResults[k].numbers,
                                     call[c].validResults[k].gameName)
    /\ (\A c \in Calls : call[c].opts.validateData) =>
           \A k \in 1..Len(rows) : WellFormedNumbers(rows[k].numbers, rows[k].gameId)

\* an accepted record whose numbers came unsorted was cleaned and written
C11_Witness ==
    /\ app.fn = "imported"
    /\ Done(1)
    /\ Len(rows) = 1
    /\ rows[1].numbers # app.data.numbers
    /\ Len(app.validation.warnings) > 0

\* C12 as stated: cleaning a cleaned record changes nothing: for every accepted
\* record r, cleanLotteryResult(cleanLotteryResult(r)) equals
\* cleanLotteryResult(r) in gameName, drawDate, numbers and jackpot.
C12_CleanIdempotent ==
    app.fn = "recleaned" =>
        /\ app.recleaned.gameName = app.cleaned.gameName
        /\ app.recleaned.drawDate = app.cleaned.drawDate
        /\ app.recleaned.numbers = app.cleaned.numbers
        /\ app.recleaned.jackpot = app.cleaned.jackpot

\* C13: isValid is true exactly when errors is empty, whatever the warnings; a
\* record with warnings only (numbers not ascending, a future date, a date
\* before 1995) is accepted, cleaned and, when imported, persisted like any
\* other valid record.
C13_WarningsDoNotBlock ==
    /\ app.fn \in {"validated", "cleaned", "recleaned", "imported"} =>
           (app.validation.isValid <=> (Len(app.validation.errors) = 0))
    /\ (app.fn = "validated" /\ Len(app.validation.errors) = 0) => ENABLED Clean
    /\ (app.fn = "imported" /\ Len(app.validation.errors) = 0
            /\ call[1].pc \notin {"idle", "start"}) =>
           call[1].validResults = <<cleanLotteryResult(app.data)>>
    /\ (app.fn = "imported" /\ Len(app.validation.errors) = 0 /\ Done(1)) =>
           /\ call[1].ret.success
           /\ call[1].ret.imported = 1
           /\ call[1].ret.details.valid = 1
           /\ call[1].ret.details.invalid = 0
           /\ rows = <<NewRow(cleanLotteryResult(app.data))>>

\* a record with two warnings and no error was imported and written
C13_Witness ==
    /\ app.fn = "imported"
    /\ Done(1)
    /\ Len(app.validation.errors) = 0
    /\ \E k \in 1..Len(app.validation.warnings) :
           app.validation.warnings[k].kind = "NotAscending"
    /\ \E k \in 1..Len(app.validation.warnings) :
           app.validation.warnings[k].kind \in {"FutureDate", "Pre1995"}
    /\ Len(rows) = 1

\* the positions of the elements that are not integers or lie outside [1, maxNumber]
Offending(numbers, g) ==
    {k \in 1..Len(numbers) :
        \/ ~IsInteger(numbers[k])
        \/ numbers[k] < N(1)
        \/ numbers[k] > N(LOTTERY_GAMES[g].maxNumber)}

\* C14: for a known game the validator adds exactly one error for each element
\* that is not an integer or lies outside [1, maxNumber], whether or not the
\* array has numberCount elements, and a length mismatch adds one further error
\* "Expected <numberCount> numbers, got <length>".
C14_OneErrorPerOffendingElement ==
    (app.fn = "validated" /\ app.data.gameName \in GameNames) =>
        LET e == app.validation.errors
            numbers == app.data.numbers
            g == app.data.gameName
            elementErrors == {k \in 1..Len(e) : e[k].kind \in {"NotAnInteger", "OutOfRange"}}
        IN  /\ Cardinality(elementErrors) = Cardinality(Offending(numbers, g))
            /\ \A p \in Offending(numbers, g) :
                   Cardinality({k \in elementErrors :
                                   e[k].a = p - 1 /\ e[k].b = numbers[p]}) = 1
            /\ CountKind(e, "ExpectedCount")
                   = (IF Len(numbers) # LOTTERY_GAMES[g].numberCount THEN 1 ELSE 0)
            /\ \A k \in 1..Len(e) : e[k].kind = "ExpectedCount" =>
                   e[k].a = LOTTERY_GAMES[g].numberCount /\ e[k].b = Len(numbers)

\* an array of the wrong length with an element out of range
C14_Witness ==
    /\ app.fn = "validated"
    /\ app.data.gameName \in GameNames
    /\ Len(app.data.numbers) # LOTTERY_GAMES[app.data.gameName].numberCount
    /\ Cardinality(Offending(app.data.numbers, app.data.gameName)) = 1
    /\ CountKind(app.validation.errors, "ExpectedCount") = 1
    /\ CountKind(app.validation.errors, "OutOfRange") = 1

\* C15: with validateData = false neither the validator nor the cleaner runs: the
\* candidates are the valid results as they came, details.valid = details.total,
\* details.invalid = 0, errors has no validation summary, and every row the call
\* writes carries the numbers of its candidate in their original order.
C15_NoValidationPassThrough ==
    \A c \in Calls : ~call[c].opts.validateData =>
        /\ call[c].pc \notin {"idle", "start"} => call[c].validResults = call[c].results
        /\ CountKind(Recorded(c), "InvalidResults") = 0
        /\ Done(c) =>
               /\ call[c].ret.details.total = Len(call[c].results)
               /\ call[c].ret.details.valid = call[c].ret.details.total
               /\ call[c].ret.details.invalid = 0
        /\ \A k \in Created(c) :
               LET r == call[c].results[ops[c][k].pos]
               IN  /\ RowsOf(rows, KeyOf(r)) # {}
                   /\ \A m \in RowsOf(rows, KeyOf(r)) : rows[m].numbers = r.numbers

\* a candidate with unsorted numbers and one with too few numbers were written
\* as they came
C15_Witness ==
    \E c \in Calls :
        /\ Done(c) /\ ~call[c].opts.validateData
        /\ \E k \in Created(c) :
               LET r == call[c].results[ops[c][k].pos]
               IN  r.numbers # SortAsc(r.numbers)
        /\ \E k \in Created(c) :
               LET r == call[c].results[ops[c][k].pos]
               IN  ~validateLotteryResult(r).isValid

\* the positions of the candidates of call c that pass validation
ValidAt(c) ==
    {k \in 1..Len(call[c].results) :
        ~call[c].results[k].isNull /\ validateLotteryResult(call[c].results[k]).isValid}

\* C16: n candidates of which v pass validation, the valid ones with pairwise
\* distinct keys that the store does not hold, every game present and no store
\* operation failing: an import with default options returns imported = v,
\* skipped = 0 and details total n, valid v, invalid n - v; and every returned
\* result has details.valid + details.invalid = details.total.
C16_CleanBatchCounts ==
    \A c \in Calls : Done(c) =>
        LET r == call[c].ret
            cs == call[c].results
            n == Len(cs)
            v == Cardinality(ValidAt(c))
        IN  /\ r.details.valid + r.details.invalid = r.details.total
            /\ (/\ call[c].opts = DEFAULT_OPTIONS
                /\ ~HasNull(cs)
                /\ Entries(c, StoreOps, {"throw", "down"}) = {}
                /\ \A k1, k2 \in ValidAt(c) : k1 # k2 => KeyOf(cs[k1]) # KeyOf(cs[k2])
                /\ \A k \in ValidAt(c) :
                       cs[k].gameName \in games /\ ~HasRow(InitialRows, KeyOf(cs[k]))) =>
                   /\ r.imported = v
                   /\ r.skipped = 0
                   /\ r.details.total = n
                   /\ r.details.valid = v
                   /\ r.details.invalid = n - v
                   /\ Len(rows) = Len(InitialRows) + v

\* two candidates, one of them invalid, imported with default options
C16_Witness ==
    \E c \in Calls :
        /\ Done(c)
        /\ call[c].opts = DEFAULT_OPTIONS
        /\ Len(call[c].results) = 2
        /\ Cardinality(ValidAt(c)) = 1
        /\ call[c].ret.imported = 1
        /\ call[c].ret.skipped = 0
        /\ call[c].ret.details.invalid = 1

\* C17: when the adapter reports failure or throws, importHistoricalData returns
\* success = false, imported = 0, skipped = 0, all details counts 0 and the
\* adapter's errors (or the message of the exception) as errors, and issues no
\* operation against the store.
C17_AdapterFailure ==
    /\ []((hist.pc = "returned" /\ ~hist.scraping.success) =>
                /\ hist.ret.success = FALSE
                /\ hist.ret.imported = 0
                /\ hist.ret.skipped = 0
                /\ hist.ret.details
                       = [total |-> 0, valid |-> 0, invalid |-> 0, duplicates |-> 0]
                /\ hist.ret.errors
                       = (IF hist.scraping.thrown
                              THEN <<Msg("ScrapingFailed", hist.scraping.message, 0, 0)>>
                              ELSE hist.scraping.errors)
                /\ Len(hist.ret.errors) = 1)
    /\ [][(hist.pc = "scrape" \/ (hist.pc = "scraped" /\ ~hist.scraping.success)) =>
              /\ rows' = rows
              /\ ops' = ops
              /\ call' = call
              /\ (hist.pc = "scraped" => hist'.pc = "returned")]_vars

\* the adapter reported failure for a game and its errors came back
C17_Witness ==
    /\ hist.pc = "returned"
    /\ ~hist.scraping.success
    /\ ~hist.scraping.thrown
    /\ hist.ret.errors = <<Msg("ScrapingFailed", "Unknown error", 0, 0)>>
    /\ hist.ret.imported = 0

\* the games of the entries of the mapping, in insertion order
Keys(results) == [k \in 1..Len(results) |-> results[k].gameType]

\* C18: importAllHistoricalData works through the catalog one game at a time: the
\* adapter is not called for a game before the result of every earlier game is
\* in the mapping, its pause has elapsed and no import is running; the mapping
\* it returns has exactly one entry for every game of the catalog, failed games
\* included, and every game after a failed one is still fetched.
C18_SequentialAllGames ==
    /\ [](hist.pc # "idle" /\ hist.mode = "all" =>
            /\ hist.fetches = SubSeq(Catalog, 1, Len(hist.fetches))
            /\ Keys(hist.results) = SubSeq(Catalog, 1, Len(hist.results))
            /\ hist.pc = "finished" =>
                   /\ Keys(hist.results) = Catalog
                   /\ hist.fetches = Catalog
                   /\ hist.paused = Len(Catalog))
    /\ [][(hist.pc # "idle" /\ hist.mode = "all"
              /\ Len(hist'.fetches) > Len(hist.fetches)) =>
              /\ Len(hist.results) = Len(hist.fetches)
              /\ hist.paused = Len(hist.fetches)
              /\ call[1].pc \in {"idle", "done"}
              /\ Len(hist'.fetches) = Len(hist.fetches) + 1]_vars
    /\ [][(hist.pc # "idle" /\ hist.mode = "all"
              /\ Len(hist'.results) > Len(hist.results)) =>
              /\ hist'.results = Append(hist.results,
                                        [gameType |-> GameType(hist), result |-> hist.ret])
              /\ call[1].pc \in {"idle", "done"}]_vars

\* the adapter failed for one game, and a later game was fetched and imported
C18_Witness ==
    /\ hist.pc = "finished"
    /\ hist.mode = "all"
    /\ \E k1, k2 \in 1..Len(hist.results) :
           /\ k1 < k2
           /\ ~hist.results[k1].result.success
           /\ CountKind(hist.results[k1].result.errors, "ScrapingFailed") = 1
           /\ hist.results[k2].result.imported >= 1

\* the key of the duplicate contract: the game and the calendar day of the draw
CalendarKey(r) == <<r.gameName, (NewDate(r.drawDate).ts + TimezoneOffset) \div 24>>

\* the positions of rs that hold a record with the key
WithKey(rs, key) == {k \in 1..Len(rs) : CalendarKey(rs[k]) = key}

\* the groups as a set of sets of records
GroupSets(groups) == {Range(groups[m]) : m \in 1..Len(groups)}

\* the rearrangements of a sequence
Rearranged(rs) ==
    {[k \in 1..Len(rs) |-> rs[p[k]]] : p \in Permutations(1..Len(rs))}

\* C19: detectDuplicates returns exactly one group for each (gameName, drawDate)
\* key that occurs more than once and none for a key that occurs once; a group
\* holds exactly the records of its key, so two records are in one group exactly
\* when they share the key and no record is in two groups; and the set of groups
\* is the same for every rearrangement of the input.
C19_DuplicateGroups ==
    app.fn = "detectDuplicates" =>
        LET rs == app.arg
            groups == app.out
        IN  /\ \A k \in 1..Len(rs) :
                   LET key == CalendarKey(rs[k])
                       of == {m \in 1..Len(groups) :
                                 \E q \in 1..Len(groups[m]) :
                                     CalendarKey(groups[m][q]) = key}
                   IN  /\ Cardinality(of) = (IF Cardinality(WithKey(rs, key)) > 1 THEN 1 ELSE 0)
                       /\ \A m \in of :
                              /\ Len(groups[m]) = Cardinality(WithKey(rs, key))
                              /\ \A q \in 1..Len(groups[m]) :
                                     CalendarKey(groups[m][q]) = key
                              /\ \A p \in WithKey(rs, key) : rs[p] \in Range(groups[m])
            /\ \A m \in 1..Len(groups) : Range(groups[m]) \subseteq Range(rs)
            /\ SeqSum([m \in 1..Len(groups) |-> Len(groups[m])]) <= Len(rs)
            /\ \A other \in Rearranged(rs) :
                   GroupSets(detectDuplicates(other)) = GroupSets(groups)

\* two keys occur twice each, their records interleaved in the input
C19_Witness ==
    /\ app.fn = "detectDuplicates"
    /\ Len(app.arg) = 4
    /\ Len(app.out) = 2
    /\ CalendarKey(app.arg[1]) = CalendarKey(app.arg[3])
    /\ CalendarKey(app.arg[2]) = CalendarKey(app.arg[4])
    /\ CalendarKey(app.arg[1]) # CalendarKey(app.arg[2])
    /\ app.arg[1] # app.arg[3]

\* the numbers of all the results, one after the other
AllDrawn(results) == Flatten([k \in 1..Len(results) |-> results[k].numbers])

Occurrences(drawn, n) == Cardinality({k \in 1..Len(drawn) : drawn[k] = n})

\* C20: for a non-empty result set numberFrequency counts, for each number, its
\* occurrences in the numbers of all the results; a number never drawn has no
\* entry; the counts add up to the number of numbers drawn.  For [1,2,3,4,5,6]
\* and [2,4,6,8,10,12]: 2, 4 and 6 have count 2, the other six numbers count 1.
C20_NumberFrequency ==
    (app.fn = "calculateGameStatistics" /\ Len(app.arg) > 0) =>
        LET freq == app.out.numberFrequency
            drawn == AllDrawn(app.arg)
        IN  /\ DOMAIN freq = Range(drawn)
            /\ \A n \in DOMAIN freq : freq[n] = Occurrences(drawn, n)
            /\ SeqSum([k \in 1..Cardinality(DOMAIN freq) |->
                          freq[Ascending(DOMAIN freq)[k]]]) = Len(drawn)
            /\ ({app.arg[k].numbers : k \in 1..Len(app.arg)}
                    = {Nums(<<1, 2, 3, 4, 5, 6>>), Nums(<<2, 4, 6, 8, 10, 12>>)}
                  /\ Len(app.arg) = 2) =>
                   /\ \A n \in {N(2), N(4), N(6)} : freq[n] = 2
                   /\ \A n \in {N(1), N(3), N(5), N(8), N(10), N(12)} : freq[n] = 1
                   /\ Cardinality(DOMAIN freq) = 9

\* the two results of the example
C20_Witness ==
    /\ app.fn = "calculateGameStatistics"
    /\ Len(app.arg) = 2
    /\ app.arg[1].numbers = Nums(<<1, 2, 3, 4, 5, 6>>)
    /\ app.arg[2].numbers = Nums(<<2, 4, 6, 8, 10, 12>>)
    /\ app.out.numberFrequency[N(2)] = 2
    /\ app.out.numberFrequency[N(1)] = 1
    /\ N(7) \notin DOMAIN app.out.numberFrequency

\* the place of a drawn number n in the order by descending occurrence count,
\* equal counts by ascending value
Place(drawn, n) ==
    1 + Cardinality({m \in Range(drawn) :
                        \/ Occurrences(drawn, m) > Occurrences(drawn, n)
                        \/ Occurrences(drawn, m) = Occurrences(drawn, n) /\ m < n})

\* C21: the drawn numbers are ordered by descending frequency, ties by ascending
\* value; hotNumbers is the first min(10, d) numbers of that order, coldNumbers
\* the last min(10, d) in reversed order, d being the number of distinct drawn
\* numbers; hot, cold and the frequency table are the same for every
\* rearrangement of the results.
C21_HotAndCold ==
    (app.fn = "calculateGameStatistics" /\ Len(app.arg) > 0) =>
        LET drawn == AllDrawn(app.arg)
            d == Cardinality(Range(drawn))
            len == Min2(10, d)
            hot == app.out.hotNumbers
            cold == app.out.coldNumbers
        IN  /\ Len(hot) = len
            /\ Len(cold) = len
            /\ \A k \in 1..len : hot[k] \in Range(drawn) /\ Place(drawn, hot[k]) = k
            /\ \A k \in 1..len : cold[k] \in Range(drawn) /\ Place(drawn, cold[k]) = d - k + 1
            /\ \A rs \in Rearranged(app.arg) :
                  LET other == calculateGameStatistics(rs)
                  IN  /\ other.hotNumbers = hot
                      /\ other.coldNumbers = cold
                      /\ other.numberFrequency = app.out.numberFrequency

\* twelve distinct numbers drawn, two of them twice: ten hot, ten cold, the ties
\* in ascending order among the hot and in descending order among the cold
C21_Witness ==
    /\ app.fn = "calculateGameStatistics"
    /\ Len(app.arg) = 3
    /\ app.arg[1].numbers = Nums(<<40, 14, 16, 29, 35, 18>>)
    /\ app.arg[2].numbers = Nums(<<1, 2, 3, 4, 5, 6>>)
    /\ app.arg[3].numbers = Nums(<<1, 2, 3, 4, 5>>)
    /\ Cardinality(DOMAIN app.out.numberFrequency) = 12
    /\ app.out.hotNumbers = Nums(<<1, 2, 3, 4, 5, 6, 14, 16, 18, 29>>)
    /\ app.out.coldNumbers = Nums(<<40, 35, 29, 18, 16, 14, 6, 5, 4, 3>>)

\* the results the pattern analysis looks at: the 20 latest rows of the game
Window(gameType) ==
    LET OfGame(r) == r.gameId = gameType
        mine == SelectSeq(rows, OfGame)
        latest == {k \in 1..Len(mine) :
                     Cardinality({j \in 1..Len(mine) : mine[j].drawDate > mine[k].drawDate})
                         < RecentDraws}
    IN  {mine[k] : k \in latest}

\* the pairs (x, x + 1) of numbers that one result of the window holds
AdjacentPairs(window) ==
    SeqSum([k \in 1..Cardinality(window) |->
               LET r == Ascending({row.drawDate : row \in window})[k]
                   numbers == (CHOOSE row \in window : row.drawDate = r).numbers
               IN  Cardinality({x \in Range(numbers) : x + N(1) \in Range(numbers)})])

\* tenths is the percentage part / whole in tenths, rounded to the nearest, a
\* half upwards
IsPercentage(tenths, part, whole) ==
    /\ 2 * tenths * whole <= 2 * 1000 * part + whole
    /\ 2 * tenths * whole > 2 * 1000 * part - whole

\* C22 (as stated): the consecutive-number rate is the number of adjacent-by-one
\* pairs of the window's results over window_size * numberCount, as a
\* percentage: over 6w for w six-number results.
C22_ConsecutiveRate ==
    (app.fn = "getNumberAnalysis" /\ ~app.threw /\ Window(app.arg) # {}) =>
        LET window == Window(app.arg)
            consecutive == app.out.patterns.consecutiveNumbers
        IN  /\ consecutive.frequency = AdjacentPairs(window)
            /\ IsPercentage(consecutive.percentage.tenths, AdjacentPairs(window),
                            Cardinality(window) * app.out.gameConfig.numberCount)

\* C22 (amended): the consecutive-number rate is the number of adjacent-by-one
\* pairs of the window's results over window_size * 5, as a percentage to one
\* decimal: the denominator for a window of w results is 5w, whatever the
\* numberCount of the game and the length of the results.
C22_ConsecutiveRateOverFive ==
    (app.fn = "getNumberAnalysis" /\ ~app.threw /\ Window(app.arg) # {}) =>
        LET window == Window(app.arg)
            consecutive == app.out.patterns.consecutiveNumbers
        IN  /\ consecutive.frequency = AdjacentPairs(window)
            /\ consecutive.percentage.fixed
            /\ IsPercentage(consecutive.percentage.tenths, AdjacentPairs(window),
                            Cardinality(window) * 5)

\* three results with 4 adjacent pairs among them: 4 / 15 is reported as 26.7
C22_Witness ==
    /\ app.fn = "getNumberAnalysis"
    /\ ~app.threw
    /\ Cardinality(Window(app.arg)) = 3
    /\ app.out.gameConfig.numberCount = 6
    /\ app.out.patterns.consecutiveNumbers.frequency = 4
    /\ app.out.patterns.consecutiveNumbers.percentage = [fixed |-> TRUE, tenths |-> 267]

\* the numbers of 1..maxNumber listed as missing, and those without a frequency
Missing == Range(app.out.patterns.numberGaps.missingNumbers)
Unlisted == {N(i) : i \in 1..app.out.gameConfig.maxNumber} \ DOMAIN app.out.numberFrequency

\* C30 (as stated): in the output of getNumberAnalysis, for any stored history,
\* a number of 1..maxNumber is listed in missingNumbers exactly when it has no
\* entry in numberFrequency, and coverage is (maxNumber - missingCount) /
\* maxNumber as a percentage.
C30_GapsMatchFrequency ==
    (app.fn = "getNumberAnalysis" /\ ~app.threw) =>
        LET gaps == app.out.patterns.numberGaps
            maxNumber == app.out.gameConfig.maxNumber
        IN  /\ Missing = Unlisted
            /\ IsPercentage(gaps.coverage.tenths, maxNumber - gaps.missingCount, maxNumber)

\* C30 (amended): missingNumbers lists, in ascending order, exactly the numbers
\* of 1..maxNumber that none of the 20 latest results holds, while
\* numberFrequency counts over all the results read; a number without a
\* frequency entry is always listed as missing, and the converse holds when the
\* game has at most 20 results; missingCount is the length of the list and
\* coverage is (maxNumber - missingCount) / maxNumber as a percentage to one
\* decimal.
C30_GapsOfRecentDraws ==
    (app.fn = "getNumberAnalysis" /\ ~app.threw) =>
        LET gaps == app.out.patterns.numberGaps
            maxNumber == app.out.gameConfig.maxNumber
            window == Window(app.arg)
            stored == {k \in 1..Len(rows) : rows[k].gameId = app.arg}
        IN  /\ Missing = {N(i) : i \in 1..maxNumber} \ UNION {Range(r.numbers) : r \in window}
            /\ gaps.missingNumbers = Ascending(Missing)
            /\ gaps.missingCount = Cardinality(Missing)
            /\ Unlisted \subseteq Missing
            /\ Cardinality(stored) <= RecentDraws => Missing = Unlisted
            /\ gaps.coverage.fixed
            /\ IsPercentage(gaps.coverage.tenths, maxNumber - gaps.missingCount, maxNumber)

\* a history of 21 results: 1 was drawn only in the oldest, so it has a frequency
\* entry and is listed as missing; 6 of the 42 numbers are covered, 14.3 per cent
C30_Witness ==
    /\ app.fn = "getNumberAnalysis"
    /\ ~app.threw
    /\ Cardinality({k \in 1..Len(rows) : rows[k].gameId = app.arg}) = RecentDraws + 1
    /\ N(1) \in Missing
    /\ N(1) \in DOMAIN app.out.numberFrequency
    /\ app.out.numberFrequency[N(1)] = 1
    /\ app.out.numberFrequency[N(2)] = RecentDraws + 1
    /\ app.out.patterns.numberGaps.missingCount = 36
    /\ app.out.patterns.numberGaps.coverage = [fixed |-> TRUE, tenths |-> 143]

\* a data row that cannot be parsed into a candidate: too few cells, or a
\* gameName, drawDate or numbers cell that is missing or unparsable
Unparsable(values, headers) ==
    LET headerMap == HeaderMap(headers)
        Cell(header) == StripQuotes(values[headerMap[header]])
    IN  \/ Len(values) < Len(headers)
        \/ \E header \in {"gameName", "drawDate", "numbers"} : headerMap[header] = 0
        \/ Cell("gameName") = ""
        \/ ParseDate(Cell("drawDate")).nan
        \/ ParseNumbers(Cell("numbers")) = <<>>

\* the data rows of the text that can be parsed
ParsableRows == {k \in 2..Len(app.lines) : ~Unparsable(app.lines[k], app.lines[1])}

\* C23: a data row of importFromCSV that cannot be parsed into a candidate (too
\* few cells, missing or unparsable gameName, drawDate or numbers cell) is left
\* out of the candidates before the batch pipeline runs: it is not counted in
\* details.total or details.invalid, adds no entry to errors and does not make
\* success false.
C23_UnparsableRowsExcluded ==
    (app.fn = "importFromCSV" /\ ~app.threw) =>
        /\ Len(call[1].results) = Cardinality(ParsableRows)
        /\ Done(1) =>
              /\ call[1].ret.details.total = Cardinality(ParsableRows)
              /\ ParsableRows = {} =>
                    /\ call[1].ret.details.invalid = 0
                    /\ call[1].ret.errors = <<>>
                    /\ call[1].ret.success

\* C24: importLotteryResults terminates: for every finite candidate list and
\* every integer batchSize, each store operation returning, the chunk loop
\* finishes and the call returns an ImportResult.
C24_Terminates == <>Done(1)

\* the outcome of handling the records one after the other with no chunks, on a
\* store that answers every operation: counts, errors and the table
RECURSIVE Unchunked(_, _, _)
Unchunked(records, skipDuplicates, acc) ==
    IF records = <<>> THEN acc
    ELSE LET r == Head(records)
             ts == NewDate(r.drawDate).ts
             present == \E k \in 1..Len(acc.rows) :
                            acc.rows[k].gameId = r.gameName /\ acc.rows[k].drawDate = ts
             after ==
                 IF r.gameName \notin games
                     THEN [acc EXCEPT !.errors = Append(@, Msg("GameNotFound", r.gameName, 0, 0))]
                 ELSE IF present /\ skipDuplicates
                     THEN [acc EXCEPT !.skipped = @ + 1]
                 ELSE IF present
                     THEN [acc EXCEPT !.errors =
                                         Append(@, Msg("FailedToImport", r.gameName, ts, 0))]
                 ELSE [acc EXCEPT !.imported = @ + 1, !.rows = Append(@, NewRow(r))]
         IN  Unchunked(Tail(records), skipDuplicates, after)

\* C25: chunking does not change the outcome: for batchSize >= 1 a call handles
\* every valid record exactly once, in input order, and returns the imported,
\* skipped, errors (in order) and details, and leaves the table, that handling
\* the valid records one after the other without chunks gives; none of them
\* depends on batchSize.
C25_ChunkingKeepsOutcome ==
    (Done(1) /\ call[1].opts.batchSize >= 1 /\ call[1].opts.validateData) =>
        LET s == call[1]
            v == validateLotteryResults(s.results)
            summary == IF Len(v.invalidResults) > 0
                           THEN <<Msg("InvalidResults", "", Len(v.invalidResults), 0)>>
                           ELSE <<>>
            one == Unchunked(v.validResults, s.opts.skipDuplicates,
                             [imported |-> 0, skipped |-> 0, errors |-> <<>>,
                              rows |-> InitialRows])
            lookups == SelectSeq(ops[1], LAMBDA e : e.op = "findGame")
        IN  /\ s.ret.imported = one.imported
            /\ s.ret.skipped = one.skipped
            /\ s.ret.errors = summary \o one.errors
            /\ s.ret.details = [total |-> Len(s.results), valid |-> Len(v.validResults),
                                invalid |-> Len(v.invalidResults),
                                duplicates |-> one.skipped]
            /\ s.ret.success = (summary \o one.errors = <<>>)
            /\ rows = one.rows
            /\ [k \in 1..Len(lookups) |-> lookups[k].pos] = [k \in 1..Len(v.validResults) |-> k]

\* three valid records in chunks of two and one: the first and the third have no
\* game, the second is created; the two errors come from different chunks
C25_Witness ==
    /\ Done(1)
    /\ call[1].opts.batchSize = 2
    /\ call[1].opts.skipDuplicates
    /\ Len(call[1].validResults) = 3
    /\ call[1].validResults[1].gameName = "6/45"
    /\ call[1].validResults[3].gameName = "6/45"
    /\ call[1].ret.imported = 1
    /\ Len(call[1].ret.errors) = 2

\* the positions of the records of call c that have the key
PositionsOf(c, key) ==
    {p \in 1..Len(call[c].validResults) : KeyOf(call[c].validResults[p]) = key}

\* how call c counted the record at position p
CountedImported(c, p) == \E k \in EntriesAt(c, "create", p) : ops[c][k].out = "ok"
CountedSkipped(c, p) == \E k \in EntriesAt(c, "findExisting", p) : ops[c][k].out = "row"
CountedError(c, p) ==
    \E op \in StoreOps : \E k \in EntriesAt(c, op, p) :
        \/ ops[c][k].out \in Failing
        \/ op = "findGame" /\ ops[c][k].out = "null"

\* C26: two concurrent imports with skipDuplicates = true that both hold a valid
\* record of one key absent from the table: under every interleaving one call
\* counts it as imported, the other as skipped, and neither adds an error for it.
C26_OneImportsOtherSkips ==
    \A key \in {KeyOf(RecA), KeyOf(RecD)} :
        (/\ \A c \in Calls : /\ Done(c)
                             /\ ~call[c].aborted
                             /\ call[c].opts.skipDuplicates
                             /\ Cardinality(PositionsOf(c, key)) = 1
         /\ ~HasRow(InitialRows, key)) =>
            LET At(c) == CHOOSE p \in PositionsOf(c, key) : TRUE
            IN  /\ \E c \in Calls :
                      /\ CountedImported(c, At(c))
                      /\ \A o \in Calls \ {c} : CountedSkipped(o, At(o))
                /\ \A c \in Calls : ~CountedError(c, At(c))

\* the rows of the table that were not there before the import: the one row an
\* earlier import may have left is SeedRow, which no candidate equals
NewRows == {k \in 1..Len(rows) : rows[k] # SeedRow}

C28_ExistingRowsUntouched ==
    /\ [][/\ Len(rows') >= Len(rows)
          /\ \A k \in 1..Len(rows) : \E m \in 1..Len(rows') : rows'[m] = rows[k]]_vars
    /\ [](\A k \in 1..Len(rows) :
              (rows[k].gameId = SeedRow.gameId /\ rows[k].drawDate = SeedRow.drawDate
                   /\ Len(rows) > Cardinality(Created(1)))
                  => rows[k] = SeedRow)

\* the table held the seeded row, a candidate with its key and other numbers was
\* sent to create (skipDuplicates = false) and turned down, another was created
C28_Witness ==
    /\ Done(1)
    /\ ~call[1].opts.skipDuplicates
    /\ \E p \in 1..Len(call[1].validResults) :
           /\ KeyOf(call[1].validResults[p]) = <<SeedRow.gameId, SeedRow.drawDate>>
           /\ call[1].validResults[p].numbers # SeedRow.numbers
           /\ \E k \in EntriesAt(1, "create", p) : ops[1][k].out = "unique"
    /\ Entries(1, {"create"}, {"ok"}) # {}
    /\ Len(rows) = 2
    /\ rows[1] = SeedRow

\* C29: the two duplicate checks agree on the key: for two clean records a, b of
\* an existing game, detectDuplicates([a, b]) reports them as one group exactly
\* when importing a and then b with skipDuplicates = true, into a table with no
\* row of a's key, imports a and skips b.
C29_DuplicateChecksAgree ==
    (/\ app.fn = "importDetected"
     /\ Done(1)
     /\ ~HasRow(InitialRows, KeyOf(app.arg[1]))) =>
        ((Len(app.out) = 1 /\ app.out[1] = app.arg)
            <=> (CountedImported(1, 1) /\ CountedSkipped(1, 2)))

====
